---- MODULE Spec2Model ----
(***************************************************************************)
(* State-machine model of the authentication and authorization layer of    *)
(* msi_support_assistant: the mock identity provider (src/src/auth/        *)
(* mock_idp.py), the OAuth session shared by the MCP client connections    *)
(* (src/src/core/agent.py), the token verifiers of the two resource        *)
(* servers, and the role / organization checks of their tools              *)
(* (src/src/auth_utils.py, src/src/mcp/organizations/server.py).           *)
(* It also covers the ticketing server (src/src/ticketing_mcp.py), the      *)
(* Ragas data collector and its use by the chat API (src/src/observability/*)
(* collector.py, src/src/api/server.py) and the RAG agent registry          *)
(* (src/src/rag/registry.py).                                               *)
(*                                                                         *)
(* Strings that are only compared are TLA+ strings.  Strings that the code *)
(* builds by formatting or takes apart by splitting are sequences of       *)
(* tokens: a token is either a delimiter character ("?", "&", "=", "#",    *)
(* ",") or a maximal run of other characters.                              *)
(***************************************************************************)
EXTENDS Integers, Sequences, FiniteSets, TLC

VARIABLES
    now,           \* the wall clock, time.time(), in ticks of 1/TicksPerSec s
    auth_codes,    \* mock_idp.auth_codes: code -> [user_id, exp]
    users,         \* mock_idp.users: username -> record
    http,          \* the last response of the identity provider, with its request
    logins,        \* history: code -> the user_id submitted to the /login that returned it
    oauth,         \* the client's OAuth objects: object -> the token it holds
    rs,            \* the last request a resource server has handled
    access_token,  \* get_access_token() of the tool call being served
    db_users,      \* the rows of the users table read by the organizations server
    tool,          \* the last tool call of a resource server, with its result
    inflight,      \* the /login requests being served, each with its position and locals
    registration,  \* the last response of POST /register, with its request
    db_tickets,    \* the rows of the tickets table of the ticketing server
    db_organizations, \* the rows of the organizations table
    tk,            \* the last tool call of the ticketing server, with its result
    collector,     \* a RagasDataCollector: its two sample lists
    collected,     \* history: the adds the collector accepted since the last clear,
                   \* and the outcome of the last call
    twin,          \* the request a retried tool call repeats: its token and its call
    registry,      \* a RAGAgentRegistry: its agents, and its last call with the result
    app_state      \* app.state of the chat API: interaction_count, and the last request

idpVars == <<now, auth_codes, users, http, logins>>
clientVars == <<oauth, rs>>
toolVars == <<access_token, db_users, tool>>
loginVars == <<inflight, registration>>
ticketVars == <<db_tickets, db_organizations, tk>>
collectorVars == <<collector, collected>>
moreVars == <<twin, registry, app_state>>
extVars == <<loginVars, ticketVars, collectorVars, moreVars>>
vars == <<now, auth_codes, users, http, logins, oauth, rs, access_token, db_users, tool,
          inflight, registration, db_tickets, db_organizations, tk, collector, collected,
          twin, registry, app_state>>

None == "None"

-----------------------------------------------------------------------------
(* Bounds of the model *)

\* clock resolution: ticks per second (time.time() is finer than int(time.time()))
TicksPerSec == 2
\* the clock is observed in the epochs 0..MaxEpochs, one code lifetime apart,
\* at each tick of the first second of the epoch and at the start of the next second
MaxEpochs == 1
\* at most this many /login requests succeed
MaxCodes == 2

-----------------------------------------------------------------------------
(* mock_idp.py: constants and the user directory *)

ISSUER_URL == "http://127.0.0.1:9400"
TICKETING_URL == "http://127.0.0.1:9000"
ORGANIZATIONS_URL == "http://127.0.0.1:9001"

EXP_TIME == 600

UsersTable ==
    [u \in {"test-client", "james_smith", "linda_baker", "terry_jobs",
            "paul_morgan", "admin"} |->
        [sub |-> u,
         roles |-> IF u = "admin" THEN <<"admin">> ELSE <<>>,
         organizations |->
            CASE u \in {"james_smith", "linda_baker", "terry_jobs"} -> <<"Dallas_Police">>
              [] u = "paul_morgan" -> <<"Allen_Firestation">>
              [] OTHER -> <<>>]]

\* the signing key pair: pem_private_key signs, jwk (n, e) is published by /jwks
IdpKey == "idp-rsa-key"
Jwks == {IdpKey}

-----------------------------------------------------------------------------
(* The clock *)

EpochTicks == EXP_TIME * TicksPerSec

Instants == {k * EpochTicks + j : k \in 0..MaxEpochs, j \in 0..TicksPerSec}

\* int(time.time()) at tick t
IntTime(t) == t \div TicksPerSec

\* the clock readings a handler entered at tick t can get from a later
\* time.time() call of the same request
LaterReads(t) == {t2 \in Instants : t2 >= t /\ t2 - t <= TicksPerSec}

-----------------------------------------------------------------------------
(* Inputs *)

\* user_id values submitted to /login: the administrator, a member of each
\* organization, and a name the directory does not hold
UserIds == {"admin", "linda_baker", "paul_morgan", "mallory"}

\* redirect_uri values: a plain callback, and one that already has a query
RedirectUris == {<<"http://localhost/callback">>,
                 <<"http://localhost/callback", "?", "tenant", "=", "a">>}

\* state values: an opaque token, and one that holds a delimiter
States == {<<"xyz">>, <<"x", "&", "y">>}

\* str(uuid.uuid4()): the n-th value it returns, and one value it never returns
CodeName(n) == "uuid-" \o ToString(n)
CodeIds == {CodeName(n) : n \in 1..MaxCodes}
CodeInputs == CodeIds \cup {"guess"}

-----------------------------------------------------------------------------
(* mock_idp.py: POST /login *)

\* uuid.uuid4(): a value it has not returned before.  The values are
\* interchangeable, so the model names them in the order of their issue.
Uuid4 == {CodeName(Cardinality(DOMAIN auth_codes) + 1)}

\* f"{redirect_uri}?error=access_denied&state={state}"
LoginErrorUrl(redirect_uri, state) ==
    redirect_uri \o <<"?", "error", "=", "access_denied", "&", "state", "=">> \o state

\* f"{redirect_uri}?code={auth_code}&state={state}"
LoginRedirectUrl(redirect_uri, auth_code, state) ==
    redirect_uri \o <<"?", "code", "=", auth_code, "&", "state", "=">> \o state

\* the entry login_post stores under the new code
AuthCodeEntry(user_id, t) == [user_id |-> user_id, exp |-> IntTime(t) + EXP_TIME]

NoClaims ==
    [iss |-> None, aud |-> <<>>, sub |-> None, roles |-> <<>>,
     organizations |-> <<>>, exp |-> 0, iat |-> 0]
NoToken == [claims |-> NoClaims, key |-> None]

LoginResponse(user_id, redirect_uri, state, auth_code) ==
    [op |-> "login", user_id |-> user_id, redirect_uri |-> redirect_uri,
     state |-> state, code |-> auth_code, at |-> now, status |-> 302,
     detail |-> None,
     location |-> IF user_id \notin DOMAIN users
                  THEN LoginErrorUrl(redirect_uri, state)
                  ELSE LoginRedirectUrl(redirect_uri, auth_code, state),
     token |-> NoToken]

\* faulty variant: the handler stores the submitted user_id before it looks
\* it up in the directory
login_post_StoreFirst(user_id, redirect_uri, state) ==
    /\ Cardinality(DOMAIN auth_codes) < MaxCodes
    /\ \E auth_code \in Uuid4 :
         /\ auth_codes' = [c \in DOMAIN auth_codes \cup {auth_code} |->
                             IF c = auth_code THEN AuthCodeEntry(user_id, now)
                             ELSE auth_codes[c]]
         /\ logins' = [c \in DOMAIN logins \cup {auth_code} |->
                         IF c = auth_code THEN user_id ELSE logins[c]]
         /\ http' = LoginResponse(user_id, redirect_uri, state,
                                  IF user_id \in DOMAIN users THEN auth_code ELSE None)
    /\ UNCHANGED <<now, users>>

login_post(user_id, redirect_uri, state) ==
    IF user_id \notin DOMAIN users
    THEN /\ http' = LoginResponse(user_id, redirect_uri, state, None)
         /\ UNCHANGED <<now, auth_codes, users, logins>>
    ELSE /\ Cardinality(DOMAIN auth_codes) < MaxCodes
         /\ \E auth_code \in Uuid4 :
              /\ auth_codes' = [c \in DOMAIN auth_codes \cup {auth_code} |->
                                  IF c = auth_code THEN AuthCodeEntry(user_id, now)
                                  ELSE auth_codes[c]]
              /\ logins' = [c \in DOMAIN logins \cup {auth_code} |->
                              IF c = auth_code THEN user_id ELSE logins[c]]
              /\ http' = LoginResponse(user_id, redirect_uri, state, auth_code)
         /\ UNCHANGED <<now, users>>

-----------------------------------------------------------------------------
(* mock_idp.py: POST /token *)

\* faulty variant: auth_info["exp"] < int(time.time()), the clock cut to seconds
CodeExpiredWholeSeconds(auth_info, t) == auth_info.exp < IntTime(t)

\* faulty variant: auth_info["exp"] <= time.time()
CodeExpiredInclusive(auth_info, t) == auth_info.exp * TicksPerSec <= t

\* auth_info["exp"] < time.time()
CodeExpired(auth_info, t) == auth_info.exp * TicksPerSec < t

\* faulty variant: the roles of the user record are not copied
AccessClaimsNoRoles(user_info, t2, t3) ==
    [iss |-> ISSUER_URL,
     aud |-> <<TICKETING_URL, ORGANIZATIONS_URL>>,
     sub |-> user_info.sub,
     roles |-> <<>>,
     organizations |-> user_info.organizations,
     exp |-> IntTime(t2) + EXP_TIME,
     iat |-> IntTime(t3)]

\* faulty variant: the audience is the ticketing server alone
AccessClaimsOneAudience(user_info, t2, t3) ==
    [iss |-> ISSUER_URL,
     aud |-> <<TICKETING_URL>>,
     sub |-> user_info.sub,
     roles |-> user_info.roles,
     organizations |-> user_info.organizations,
     exp |-> IntTime(t2) + EXP_TIME,
     iat |-> IntTime(t3)]

\* access_claims; "exp" is evaluated at clock reading t2, "iat" at t3
AccessClaims(user_info, t2, t3) ==
    [iss |-> ISSUER_URL,
     aud |-> <<TICKETING_URL, ORGANIZATIONS_URL>>,
     sub |-> user_info.sub,
     roles |-> user_info.roles,
     organizations |-> user_info.organizations,
     exp |-> IntTime(t2) + EXP_TIME,
     iat |-> IntTime(t3)]

\* jwt.encode(payload, key, algorithm = 'RS256'): the payload, signed by key
JwtEncode(payload, key) == [claims |-> payload, key |-> key]

TokenError(code, t, status, detail) ==
    [op |-> "token", user_id |-> None, redirect_uri |-> <<>>, state |-> <<>>,
     code |-> code, at |-> t, status |-> status, detail |-> detail,
     location |-> <<>>, token |-> NoToken]

\* faulty variant: no "code not in auth_codes" test, auth_codes[code] raises
\* KeyError and the request ends as an internal server error
TokenResponseNoLookup(code, t1, t2, t3) ==
    IF code \notin DOMAIN auth_codes
    THEN TokenError(code, t1, 500, "Internal Server Error")
    ELSE LET auth_info == auth_codes[code] IN
         IF CodeExpired(auth_info, t1)
         THEN TokenError(code, t1, 400, "auth code expired")
         ELSE IF auth_info.user_id \notin DOMAIN users
         THEN TokenError(code, t1, 401, "user id not found")
         ELSE [TokenError(code, t1, 200, None) EXCEPT
                 !.token = JwtEncode(AccessClaims(users[auth_info.user_id], t2, t3),
                                     IdpKey)]

\* faulty variant: the entry read is that of the code issued last, not that of
\* the code presented
TokenResponseLatestCode(code, t1, t2, t3) ==
    IF code \notin DOMAIN auth_codes
    THEN TokenError(code, t1, 400, "invalid auth code")
    ELSE LET auth_info == auth_codes[CodeName(Cardinality(DOMAIN auth_codes))] IN
         IF CodeExpired(auth_info, t1)
         THEN TokenError(code, t1, 400, "auth code expired")
         ELSE IF auth_info.user_id \notin DOMAIN users
         THEN TokenError(code, t1, 401, "user id not found")
         ELSE [TokenError(code, t1, 200, None) EXCEPT
                 !.token = JwtEncode(AccessClaims(users[auth_info.user_id], t2, t3),
                                     IdpKey)]

\* the response of token(code) when its clock readings are t1, t2, t3
TokenResponse(code, t1, t2, t3) ==
    IF code \notin DOMAIN auth_codes
    THEN TokenError(code, t1, 400, "invalid auth code")
    ELSE LET auth_info == auth_codes[code] IN
         IF CodeExpired(auth_info, t1)
         THEN TokenError(code, t1, 400, "auth code expired")
         ELSE IF auth_info.user_id \notin DOMAIN users
         THEN TokenError(code, t1, 401, "user id not found")
         ELSE [TokenError(code, t1, 200, None) EXCEPT
                 !.token = JwtEncode(AccessClaims(users[auth_info.user_id], t2, t3),
                                     IdpKey)]

\* faulty variant: a successful exchange deletes the code it redeemed
token_OneTimeUse(code) ==
    \E t2 \in LaterReads(now) : \E t3 \in LaterReads(t2) :
       LET response == TokenResponse(code, now, t2, t3) IN
       /\ response.status # 200 => t2 = now /\ t3 = now
       /\ http' = response
       /\ now' = t3
       /\ auth_codes' = IF response.status = 200
                        THEN [c \in DOMAIN auth_codes \ {code} |-> auth_codes[c]]
                        ELSE auth_codes
       /\ UNCHANGED <<users, logins>>

token(code) ==
    \E t2 \in LaterReads(now) : \E t3 \in LaterReads(t2) :
       LET response == TokenResponse(code, now, t2, t3) IN
       /\ response.status # 200 => t2 = now /\ t3 = now
       /\ http' = response
       /\ now' = t3
       /\ UNCHANGED <<auth_codes, users, logins>>

-----------------------------------------------------------------------------
(* Time passes between requests *)

Advance == 
    /\ \E t \in Instants : t > now /\ now' = t
    /\ UNCHANGED <<auth_codes, users, http, logins>>

-----------------------------------------------------------------------------
(* Token verification at the resource servers *)

Servers == {"ticketing", "organizations"}

\* SERVER_URL of ticketing_mcp.py and of mcp/organizations/server.py
ServerUrl(server) == IF server = "ticketing" THEN TICKETING_URL ELSE ORGANIZATIONS_URL

Range(s) == {s[i] : i \in DOMAIN s}

\* GET /jwks of the server at ISSUER_URL; nothing is published anywhere else
JwksFetch(jwks_uri) == IF jwks_uri = <<ISSUER_URL, "/jwks">> THEN Jwks ELSE {}

\* faulty variant: JWTVerifier(jwks_uri = ..., issuer = ISSUER_URL), no audience
VERIFIER_NoAudience(server) ==
    [jwks_uri |-> <<ISSUER_URL, "/jwks">>,
     issuer |-> ISSUER_URL,
     audience |-> None]

\* VERIFIER = JWTVerifier(jwks_uri = f"{ISSUER_URL}/jwks", issuer = ISSUER_URL,
\*                        audience = SERVER_URL)
VERIFIER(server) ==
    [jwks_uri |-> <<ISSUER_URL, "/jwks">>,
     issuer |-> ISSUER_URL,
     audience |-> ServerUrl(server)]

\* JWTVerifier.verify_token (fastmcp): the four checks of a presented token at
\* clock reading t; an unset issuer or audience is not checked
JwtVerify(verifier, bearer, t) ==
    /\ bearer.key \in JwksFetch(verifier.jwks_uri)
    /\ verifier.issuer = None \/ bearer.claims.iss = verifier.issuer
    /\ verifier.audience = None \/ verifier.audience \in Range(bearer.claims.aud)
    /\ t < bearer.claims.exp * TicksPerSec

\* a request with a bearer token at a resource server: the tool runs, with the
\* token's claims as its access token, only if the verifier accepts the token
HandleRequest(server, bearer, t) ==
    LET accepted == JwtVerify(VERIFIER(server), bearer, t) IN
    [server |-> server, bearer |-> bearer, at |-> t,
     status |-> IF accepted THEN 200 ELSE 401,
     executed |-> accepted,
     claims |-> IF accepted THEN bearer.claims ELSE NoClaims]

NoRequest ==
    [server |-> None, bearer |-> NoToken, at |-> 0, status |-> 0,
     executed |-> FALSE, claims |-> NoClaims]

\* the bearer tokens a stranger can present: any key, issuer, audience, expiry
Bearers ==
    {[key |-> k,
      claims |-> [iss |-> i, aud |-> a, sub |-> "linda_baker", roles |-> <<>>,
                  organizations |-> <<"Dallas_Police">>, exp |-> e, iat |-> 0]] :
        k \in {IdpKey, "other-rsa-key"},
        i \in {ISSUER_URL, "http://127.0.0.1:9999"},
        a \in {<<>>, <<TICKETING_URL>>, <<ORGANIZATIONS_URL>>,
               <<TICKETING_URL, ORGANIZATIONS_URL>>},
        e \in {EXP_TIME, EXP_TIME + 1}}

BearerRequest(server, bearer) ==
    /\ rs' = HandleRequest(server, bearer, now)
    /\ UNCHANGED <<idpVars, oauth, toolVars, extVars>>

-----------------------------------------------------------------------------
(* core/agent.py: the MCP client and its OAuth objects *)

MCP_TICKETING_URL == <<TICKETING_URL, "/mcp">>
MCP_ORGANIZATIONS_URL == <<ORGANIZATIONS_URL, "/mcp">>

\* create_mcp_client: the connections, and the OAuth object each one is given
McpConnections ==
    [ticketing |-> [url |-> MCP_TICKETING_URL, auth |-> "shared_oauth"],
     organizations |-> [url |-> MCP_ORGANIZATIONS_URL, auth |-> "shared_oauth"]]

OAuthObjects == {McpConnections[c].auth : c \in DOMAIN McpConnections}

\* the resource server that listens at a connection's url
ServerAt(url) == CHOOSE s \in Servers : ServerUrl(s) = url[1]

\* an OAuth object without a token takes the token of the exchange it has run
ClientObtainToken(o) ==
    /\ oauth[o] = NoToken
    /\ http.op = "token" /\ http.status = 200
    /\ oauth' = [oauth EXCEPT ![o] = http.token]
    /\ UNCHANGED <<idpVars, rs, toolVars, extVars>>

\* a tool call over connection c carries the token of the connection's OAuth object
ToolRequest(c) ==
    /\ oauth[McpConnections[c].auth] # NoToken
    /\ rs' = HandleRequest(ServerAt(McpConnections[c].url),
                           oauth[McpConnections[c].auth], now)
    /\ UNCHANGED <<idpVars, oauth, toolVars, extVars>>

-----------------------------------------------------------------------------
(* auth_utils.py: the helpers of the tools *)

\* token.claims.get("roles") if token else None: whether the value is a list
HasRoles == access_token.present /\ "roles" \in DOMAIN access_token.claims

\* check_roles(allowed_roles): any(role in roles for role in allowed_roles).
\* With roles = None the first membership test raises TypeError.
check_roles(allowed_roles) ==
    IF HasRoles
    THEN [raised |-> FALSE,
          value |-> \E i \in DOMAIN allowed_roles :
                       allowed_roles[i] \in Range(access_token.claims.roles)]
    ELSE IF allowed_roles = <<>>
    THEN [raised |-> FALSE, value |-> FALSE]
    ELSE [raised |-> TRUE, value |-> FALSE]

\* get_username(): token.claims.get("sub") if token else None
get_username ==
    IF access_token.present /\ "sub" \in DOMAIN access_token.claims
    THEN access_token.claims.sub
    ELSE None

-----------------------------------------------------------------------------
(* mcp/organizations/server.py: the users table and the results of the tools *)

E_NoOrganization == "Error, no argument given for organization"
E_NoUsernames == "Error, no argument given for usernames"
E_Denied == "User does not have permission to use this tool for the given organization"
E_Request == "Error with request"

Result(kind) ==
    [kind |-> kind, error |-> None, value |-> FALSE, users |-> <<>>,
     shared |-> {}, unique |-> <<>>, organizations |-> {}]
ErrorResult(reason) == [Result("error") EXCEPT !.error = reason]

Min(S) == CHOOSE x \in S : \A y \in S : x <= y

\* str.split(sep): the fields between the separators
RECURSIVE Split(_, _)
Split(str, sep) ==
    LET at == {i \in 1..Len(str) : str[i] = sep} IN
    IF at = {} THEN <<str>>
    ELSE <<SubSeq(str, 1, Min(at) - 1)>> \o Split(SubSeq(str, Min(at) + 1, Len(str)), sep)

\* set(permissions_str[0].split(','))
PermissionSet(str) == Range(Split(str, ","))

VIEW_AGENCY_USERS == <<"view_agency_users">>

\* cursor.fetchone() of SELECT organization_permissions FROM users
\*   WHERE username = ? AND organization = ?: the matching rows, in table order
RowsOf(username, organization) ==
    SelectSeq(db_users.rows,
              LAMBDA r : r.username = username /\ r.organization = organization)

\* faulty variant: the permission rows are consulted for administrators too
OrgCheckNoBypass(organization) ==
    LET admin == check_roles(<<"admin">>)
        found == RowsOf(get_username, organization) IN
    IF admin.raised THEN "raise"
    ELSE IF found = <<>> THEN "deny"
    ELSE IF VIEW_AGENCY_USERS \notin PermissionSet(found[1].organization_permissions)
    THEN "deny"
    ELSE "pass"

\* faulty variant: a caller without a row for the organization is let through
OrgCheckFailOpen(organization) ==
    LET admin == check_roles(<<"admin">>)
        found == RowsOf(get_username, organization) IN
    IF admin.raised THEN "raise"
    ELSE IF admin.value THEN "pass"
    ELSE IF found = <<>> THEN "pass"
    ELSE IF VIEW_AGENCY_USERS \notin PermissionSet(found[1].organization_permissions)
    THEN "deny"
    ELSE "pass"

\* faulty variant: a caller whose token lists the organization is let through
OrgCheckTrustsToken(organization) ==
    LET admin == check_roles(<<"admin">>)
        found == RowsOf(get_username, organization) IN
    IF admin.raised THEN "raise"
    ELSE IF admin.value THEN "pass"
    ELSE IF /\ "organizations" \in DOMAIN access_token.claims
            /\ organization \in Range(access_token.claims.organizations)
    THEN "pass"
    ELSE IF found = <<>> THEN "deny"
    ELSE IF VIEW_AGENCY_USERS \notin PermissionSet(found[1].organization_permissions)
    THEN "deny"
    ELSE "pass"

\* the permission check of get_organization_users and compare_user_permissions
\* (the block under "Check permission to use tool"): "raise" when check_roles
\* raises, "deny" when the tool returns the permission error, "pass" otherwise
OrgCheck(organization) ==
    LET admin == check_roles(<<"admin">>)
        found == RowsOf(get_username, organization) IN
    IF admin.raised THEN "raise"
    ELSE IF admin.value THEN "pass"
    ELSE IF found = <<>> THEN "deny"
    ELSE IF VIEW_AGENCY_USERS \notin PermissionSet(found[1].organization_permissions)
    THEN "deny"
    ELSE "pass"

\* SELECT username FROM users WHERE organization = ?
UsersOf(organization) ==
    LET found == SelectSeq(db_users.rows, LAMBDA r : r.organization = organization) IN
    [i \in DOMAIN found |-> found[i].username]

get_organization_users(organization) ==
    IF organization = "" THEN ErrorResult(E_NoOrganization)
    ELSE IF ~db_users.ok THEN ErrorResult(E_Request)
    ELSE LET check == OrgCheck(organization) IN
         IF check = "raise" THEN ErrorResult(E_Request)
         ELSE IF check = "deny" THEN ErrorResult(E_Denied)
         ELSE [Result("users") EXCEPT !.users = UsersOf(organization)]

\* cursor.fetchone() of SELECT organization_permissions FROM users WHERE username = ?
TargetPermissions(user) ==
    LET found == SelectSeq(db_users.rows, LAMBDA r : r.username = user) IN
    IF found = <<>> THEN {} ELSE PermissionSet(found[1].organization_permissions)

\* faulty variant: shared_permissions is all_permissions[0], not intersected
SharedPermissionsFirstOnly(usernames) ==
    IF usernames = <<>> THEN {} ELSE TargetPermissions(usernames[1])

\* shared_permissions: all_permissions[0] intersected with every set of the list
SharedPermissions(usernames) ==
    IF usernames = <<>> THEN {}
    ELSE {p \in TargetPermissions(usernames[1]) :
            \A i \in DOMAIN usernames : p \in TargetPermissions(usernames[i])}

\* faulty variant: the targets are read and compared before the caller's check
compare_user_permissions_ReadFirst(organization, usernames) ==
    LET comparison == [shared |-> SharedPermissions(usernames),
                       unique |-> [u \in Range(usernames) |->
                                     TargetPermissions(u) \ SharedPermissions(usernames)]] IN
    IF organization = "" THEN ErrorResult(E_NoOrganization)
    ELSE IF usernames = <<>> THEN ErrorResult(E_NoUsernames)
    ELSE IF ~db_users.ok THEN ErrorResult(E_Request)
    ELSE LET check == OrgCheck(organization) IN
         IF check = "raise" THEN ErrorResult(E_Request)
         ELSE IF check = "deny"
         THEN [ErrorResult(E_Denied) EXCEPT !.shared = comparison.shared,
                                            !.unique = comparison.unique]
         ELSE [Result("comparison") EXCEPT !.shared = comparison.shared,
                                           !.unique = comparison.unique]

compare_user_permissions(organization, usernames) ==
    IF organization = "" THEN ErrorResult(E_NoOrganization)
    ELSE IF usernames = <<>> THEN ErrorResult(E_NoUsernames)
    ELSE IF ~db_users.ok THEN ErrorResult(E_Request)
    ELSE LET check == OrgCheck(organization) IN
         IF check = "raise" THEN ErrorResult(E_Request)
         ELSE IF check = "deny" THEN ErrorResult(E_Denied)
         ELSE [Result("comparison") EXCEPT
                 !.shared = SharedPermissions(usernames),
                 !.unique = [u \in Range(usernames) |->
                               TargetPermissions(u) \ SharedPermissions(usernames)]]

-----------------------------------------------------------------------------
(* The requests served by the organizations server *)

\* at most this many rows in the users table
MaxRows == 2
\* at most this many usernames in a compare_user_permissions call
MaxTargets == 2

Organizations == {"Dallas_Police", "Allen_Firestation"}

UserRow(username, organization, organization_permissions) ==
    [username |-> username, organization |-> organization,
     organization_permissions |-> organization_permissions]

\* rows of the users table; organization_permissions is a comma-separated list
UserRows ==
    {UserRow("linda_baker", "Dallas_Police", <<"edit_users", ",", "view_agency_users">>),
     UserRow("linda_baker", "Dallas_Police", <<"edit_users">>),
     UserRow("linda_baker", "Allen_Firestation", <<"edit_users">>),
     UserRow("paul_morgan", "Allen_Firestation", <<"view_agency_users", ",", "run_reports">>),
     UserRow("paul_morgan", "Dallas_Police", <<"view_agency_users">>)}

SeqsUpTo(S, n) == UNION {[1..k -> S] : k \in 0..n}

\* the users table: its rows in table order, or a database that cannot be read
Databases ==
    {[ok |-> TRUE, rows |-> rows] : rows \in SeqsUpTo(UserRows, MaxRows)}
        \cup {[ok |-> FALSE, rows |-> <<>>]}

NoAccessToken == [present |-> FALSE, claims |-> <<>>]

\* get_access_token() of a request: none, a token without a roles claim, and
\* tokens with the claims the identity provider writes
AccessTokens ==
    {NoAccessToken, [present |-> TRUE, claims |-> [sub |-> "linda_baker"]]}
        \cup {[present |-> TRUE,
               claims |-> [AccessClaims(UsersTable[u], 0, 0) EXCEPT
                             !.roles = r, !.organizations = o]] :
                u \in {"linda_baker", "paul_morgan"},
                r \in {<<>>, <<"admin">>},
                o \in {<<>>, <<"Dallas_Police">>}}
        \cup {[present |-> TRUE, claims |-> AccessClaims(UsersTable["admin"], 0, 0)]}

OrganizationArgs == Organizations \cup {""}
UsernameArgs == SeqsUpTo({"linda_baker", "paul_morgan", "nobody"}, MaxTargets)
AllowedRoleArgs == {<<>>, <<"admin">>, <<"support", "admin">>}

Call(name, organization, usernames, allowed_roles, result) ==
    [name |-> name, organization |-> organization, usernames |-> usernames,
     allowed_roles |-> allowed_roles, result |-> result]

NoCall == Call(None, "", <<>>, <<>>, Result(None))

CallCheckRoles(allowed_roles) ==
    /\ tool = NoCall
    /\ tool' = Call("check_roles", "", <<>>, allowed_roles,
                    LET r == check_roles(allowed_roles) IN
                    IF r.raised THEN Result("TypeError")
                    ELSE [Result("bool") EXCEPT !.value = r.value])
    /\ UNCHANGED <<idpVars, clientVars, access_token, db_users, extVars>>

CallGetOrganizationUsers(organization) ==
    /\ tool = NoCall
    /\ tool' = Call("get_organization_users", organization, <<>>, <<>>,
                    get_organization_users(organization))
    /\ UNCHANGED <<idpVars, clientVars, access_token, db_users, extVars>>

CallCompareUserPermissions(organization, usernames) ==
    /\ tool = NoCall
    /\ tool' = Call("compare_user_permissions", organization, usernames, <<>>,
                    compare_user_permissions(organization, usernames))
    /\ UNCHANGED <<idpVars, clientVars, access_token, db_users, extVars>>

-----------------------------------------------------------------------------
(* ticketing_mcp.py: the tickets table and the tools of the ticketing server *)

\* at most this many rows in the tickets table
MaxTickets == 2

\* @mcp.tool() rebinds the module's name get_username to what the decorator
\* returns for the async tool of that name: the tool object it has registered,
\* or the async function itself, depending on the fastmcp release
ToolDecorator == {"tool object", "function"}

\* the coroutine object a call of an async function returns
Coroutine == "<coroutine object get_username>"

\* get_username() as the tools of ticketing_mcp.py call it: a tool object is
\* not callable (TypeError), an async function returns a coroutine object
TkGetUsername(decorated) ==
    IF decorated = "tool object"
    THEN [raised |-> TRUE, value |-> None]
    ELSE [raised |-> FALSE, value |-> Coroutine]

\* sqlite3 binds None and strings as query parameters; any other object
\* makes cursor.execute raise
SqlBindable(v) == v # Coroutine

E_TkDenied == "User does not have permission to use this tool"
E_TkDeniedUser == "User does not have permission to use this tool for the given username"
E_TkRequest == "Error with request"

\* the value a ticketing tool returns: a string (kind "str"), a dict (kind
\* "dict") with an "error" key or with tickets, or an exception (kind "raise")
TkResult(kind) == [kind |-> kind, text |-> None, error |-> None, tickets |-> {}]
TkString(text) == [TkResult("str") EXCEPT !.text = text]
TkError(reason) == [TkResult("dict") EXCEPT !.error = reason]
TkRaise == [TkResult("raise") EXCEPT !.text = "TypeError"]

TicketRow(id, username, status, response, response_user) ==
    [id |-> id, title |-> "t", description |-> "d", username |-> username,
     status |-> status, response |-> response, response_user |-> response_user]

\* tickets_json[str(ticket['id'])] = {...}: the entry of a row
TicketJson(row) ==
    [id |-> row.id, title |-> row.title, description |-> row.description,
     status |-> row.status, resolution |-> row.response,
     resolved_by |-> row.response_user]

TicketsJson(rows) == {TicketJson(rows[i]) : i \in DOMAIN rows}

\* cursor.lastrowid after an INSERT: one more than the largest id
LastRowId(rows) ==
    IF rows = <<>> THEN 1
    ELSE 1 + (CHOOSE m \in {rows[i].id : i \in DOMAIN rows} :
                \A i \in DOMAIN rows : rows[i].id <= m)

\* create_ticket(title, description): the result and the table afterwards
create_ticket(title, description, decorated) ==
    LET username == TkGetUsername(decorated) IN
    IF title = "" THEN [result |-> TkString("Error, no argument given for title"),
                        rows |-> db_tickets.rows]
    ELSE IF description = ""
    THEN [result |-> TkString("Error, no argument given for description"),
          rows |-> db_tickets.rows]
    ELSE IF username.raised THEN [result |-> TkRaise, rows |-> db_tickets.rows]
    ELSE IF ~db_tickets.ok \/ ~SqlBindable(username.value)
    THEN [result |-> TkString(E_TkRequest), rows |-> db_tickets.rows]
    ELSE [result |-> TkString("Ticket successfully created with id"),
          rows |-> Append(db_tickets.rows,
                          [id |-> LastRowId(db_tickets.rows), title |-> title,
                           description |-> description, username |-> username.value,
                           status |-> "active", response |-> None,
                           response_user |-> None])]

\* faulty variant: resolve_ticket without its check_roles(["admin"]) test
resolve_ticket_Unguarded(ticket_id, resolution_description, decorated) ==
    LET username == TkGetUsername(decorated)
        found == SelectSeq(db_tickets.rows, LAMBDA r : r.id = ticket_id)
        same(text) == [result |-> TkString(text), rows |-> db_tickets.rows] IN
    IF ticket_id = 0 THEN same("Error, no argument given for ticket_id")
    ELSE IF resolution_description = "" THEN same("Error, no argument given for description")
    ELSE IF username.raised THEN [result |-> TkRaise, rows |-> db_tickets.rows]
    ELSE IF ~db_tickets.ok THEN same(E_TkRequest)
    ELSE IF found = <<>> THEN same("Ticket ID not found")
    ELSE IF found[1].status # "active" THEN same("Ticket status not active")
    ELSE IF ~SqlBindable(username.value) THEN same(E_TkRequest)
    ELSE [result |-> TkString("Ticket resolved"),
          rows |-> [i \in DOMAIN db_tickets.rows |->
                      IF db_tickets.rows[i].id = ticket_id
                      THEN [db_tickets.rows[i] EXCEPT
                              !.status = "resolved",
                              !.response = resolution_description,
                              !.response_user = username.value]
                      ELSE db_tickets.rows[i]]]

\* resolve_ticket(ticket_id, resolution_description): the result and the table
\* afterwards
resolve_ticket(ticket_id, resolution_description, decorated) ==
    LET admin == check_roles(<<"admin">>)
        username == TkGetUsername(decorated)
        found == SelectSeq(db_tickets.rows, LAMBDA r : r.id = ticket_id)
        same(text) == [result |-> TkString(text), rows |-> db_tickets.rows] IN
    IF admin.raised THEN [result |-> TkRaise, rows |-> db_tickets.rows]
    ELSE IF ~admin.value THEN same(E_TkDenied)
    ELSE IF ticket_id = 0 THEN same("Error, no argument given for ticket_id")
    ELSE IF resolution_description = "" THEN same("Error, no argument given for description")
    ELSE IF username.raised THEN [result |-> TkRaise, rows |-> db_tickets.rows]
    ELSE IF ~db_tickets.ok THEN same(E_TkRequest)
    ELSE IF found = <<>> THEN same("Ticket ID not found")
    ELSE IF found[1].status # "active" THEN same("Ticket status not active")
    ELSE IF ~SqlBindable(username.value) THEN same(E_TkRequest)
    ELSE [result |-> TkString("Ticket resolved"),
          rows |-> [i \in DOMAIN db_tickets.rows |->
                      IF db_tickets.rows[i].id = ticket_id
                      THEN [db_tickets.rows[i] EXCEPT
                              !.status = "resolved",
                              !.response = resolution_description,
                              !.response_user = username.value]
                      ELSE db_tickets.rows[i]]]

\* get_tickets_by_user(username); username = None is the omitted argument
get_tickets_by_user(username, decorated) ==
    LET this_username == TkGetUsername(decorated)
        goal_username == IF username # None /\ username # ""
                         THEN username ELSE this_username.value
        admin == check_roles(<<"admin">>) IN
    IF this_username.raised THEN TkRaise
    ELSE IF this_username.value # goal_username /\ admin.raised THEN TkRaise
    ELSE IF this_username.value # goal_username /\ ~admin.value
    THEN TkError(E_TkDeniedUser)
    ELSE IF ~db_tickets.ok \/ ~SqlBindable(goal_username) THEN TkError(E_TkRequest)
    ELSE [TkResult("dict") EXCEPT
            !.tickets = TicketsJson(SelectSeq(db_tickets.rows,
                                              LAMBDA r : r.username = goal_username))]

\* get_tickets_by_status(status); status = None is the omitted argument
get_tickets_by_status(status) ==
    LET admin == check_roles(<<"admin">>) IN
    IF admin.raised THEN TkRaise
    ELSE IF ~admin.value THEN TkString(E_TkDenied)
    ELSE IF ~db_tickets.ok THEN TkError(E_TkRequest)
    ELSE [TkResult("dict") EXCEPT
            !.tickets = TicketsJson(
                IF status # None /\ status # ""
                THEN SelectSeq(db_tickets.rows, LAMBDA r : r.status = status)
                ELSE db_tickets.rows)]

-----------------------------------------------------------------------------
(* mcp/organizations/server.py: get_organizations *)

E_DeniedTool == "User does not have permission to use this tool"

\* get_organizations(): check_roles is called before the try block, so its
\* exception leaves the tool (kind "raise")
get_organizations ==
    LET admin == check_roles(<<"admin">>) IN
    IF admin.raised THEN Result("raise")
    ELSE IF ~admin.value THEN ErrorResult(E_DeniedTool)
    ELSE IF ~db_organizations.ok THEN ErrorResult(E_Request)
    ELSE [Result("organizations") EXCEPT
            !.organizations = Range(db_organizations.rows)]

-----------------------------------------------------------------------------
(* The requests served by the ticketing server, and get_organizations *)

\* the rows of a tickets table, by id: tickets of two users, active and resolved
TicketAt(id) ==
    IF id % 2 = 1
    THEN TicketRow(id, "linda_baker", "active", None, None)
    ELSE TicketRow(id, "paul_morgan", "resolved", "done", "admin")

TicketDatabases ==
    {[ok |-> TRUE, rows |-> [i \in 1..n |-> TicketAt(i)]] : n \in 0..MaxTickets}
        \cup {[ok |-> FALSE, rows |-> <<>>]}

OrganizationRow(name) ==
    [name |-> name, aware_service |-> "aware", status |-> "active", region |-> "TX"]

OrganizationDatabases ==
    {[ok |-> TRUE, rows |-> <<OrganizationRow("Dallas_Police")>>],
     [ok |-> FALSE, rows |-> <<>>]}

\* the users tables of the requests below
UserDatabases ==
    {[ok |-> TRUE, rows |-> <<>>],
     [ok |-> TRUE,
      rows |-> <<UserRow("linda_baker", "Dallas_Police",
                         <<"edit_users", ",", "view_agency_users">>)>>]}

TicketIdArgs == 0..MaxTickets
TextArgs == {"", "text"}
TicketUserArgs == {None, "linda_baker", "paul_morgan"}
TicketStatusArgs == {None, "active"}

TkCall(name, ticket_id, arg, decorated, before, result) ==
    [name |-> name, ticket_id |-> ticket_id, arg |-> arg, decorated |-> decorated,
     before |-> before, result |-> result]

NoTkCall == TkCall(None, 0, None, None, <<>>, TkResult(None))

CallCreateTicket(title, description) ==
    /\ tool = NoCall /\ tk = NoTkCall
    /\ Len(db_tickets.rows) < MaxTickets
    /\ \E decorated \in ToolDecorator :
         LET r == create_ticket(title, description, decorated) IN
         /\ tk' = TkCall("create_ticket", 0, title, decorated, db_tickets.rows, r.result)
         /\ db_tickets' = [db_tickets EXCEPT !.rows = r.rows]
    /\ UNCHANGED <<idpVars, clientVars, toolVars, loginVars, db_organizations,
                   collectorVars, moreVars>>

CallResolveTicket(ticket_id, resolution_description) ==
    /\ tool = NoCall /\ tk = NoTkCall
    /\ \E decorated \in ToolDecorator :
         LET r == resolve_ticket(ticket_id, resolution_description, decorated) IN
         /\ tk' = TkCall("resolve_ticket", ticket_id, resolution_description,
                         decorated, db_tickets.rows, r.result)
         /\ db_tickets' = [db_tickets EXCEPT !.rows = r.rows]
    /\ UNCHANGED <<idpVars, clientVars, toolVars, loginVars, db_organizations,
                   collectorVars, moreVars>>

CallGetTicketsByUser(username) ==
    /\ tool = NoCall /\ tk = NoTkCall
    /\ \E decorated \in ToolDecorator :
         tk' = TkCall("get_tickets_by_user", 0, username, decorated, db_tickets.rows,
                      get_tickets_by_user(username, decorated))
    /\ UNCHANGED <<idpVars, clientVars, toolVars, loginVars, db_tickets,
                   db_organizations, collectorVars, moreVars>>

CallGetTicketsByStatus(status) ==
    /\ tool = NoCall /\ tk = NoTkCall
    /\ tk' = TkCall("get_tickets_by_status", 0, status, None, db_tickets.rows,
                    get_tickets_by_status(status))
    /\ UNCHANGED <<idpVars, clientVars, toolVars, loginVars, db_tickets,
                   db_organizations, collectorVars, moreVars>>

CallGetOrganizations ==
    /\ tool = NoCall /\ tk = NoTkCall
    /\ tool' = Call("get_organizations", "", <<>>, <<>>, get_organizations)
    /\ UNCHANGED <<idpVars, clientVars, access_token, db_users, extVars>>

\* a request arrives: its verified token becomes the access token of the one
\* tool call the request makes
\* the request whose call a retry repeats; none before the first retry
Twin(token_, call) == [access_token |-> token_, tool |-> call]
NoTwin == Twin(NoAccessToken, NoCall)

Request(token_) ==
    /\ access_token' = token_
    /\ tool' = NoCall
    /\ tk' = NoTkCall
    /\ twin' = NoTwin
    /\ UNCHANGED <<idpVars, clientVars, db_users, loginVars, db_tickets,
                   db_organizations, collectorVars, registry, app_state>>

-----------------------------------------------------------------------------
(* mock_idp.py: POST /register *)

\* at most this many clients are registered
MaxClients == 2

ClientName(n) == "client-uuid-" \o ToString(n)

RegisterUriArgs ==
    {<<>>, <<"http://localhost/callback">>,
     <<"http://localhost/callback", "http://localhost/other">>}

RegistrationResponse(redirect_uris, status, detail, client_id, count) ==
    [request |-> redirect_uris, status |-> status, detail |-> detail,
     client_id |-> client_id,
     redirect_uris |-> IF status = 200 THEN redirect_uris ELSE <<>>,
     count |-> count]

NoRegistration == RegistrationResponse(<<>>, 0, None, None, 0)

\* faulty variant: the client is recorded in the user directory
register_Stateful(redirect_uris) ==
    /\ registration.count < MaxClients
    /\ IF redirect_uris = <<>>
       THEN /\ registration' = RegistrationResponse(redirect_uris, 400,
                                   "redirect_uris required", None, registration.count)
            /\ UNCHANGED users
       ELSE /\ registration' = RegistrationResponse(redirect_uris, 200, None,
                                   ClientName(registration.count + 1),
                                   registration.count + 1)
            /\ users' = [u \in DOMAIN users \cup {ClientName(registration.count + 1)} |->
                           IF u \in DOMAIN users THEN users[u]
                           ELSE [sub |-> u, roles |-> <<>>, organizations |-> <<>>]]
    /\ UNCHANGED <<now, auth_codes, http, logins, inflight,
                   clientVars, toolVars, ticketVars, collectorVars, moreVars>>

\* register(request): new_client_id is a uuid4 value, named here in the order
\* of issue; nothing is stored
register(redirect_uris) ==
    /\ registration.count < MaxClients
    /\ IF redirect_uris = <<>>
       THEN /\ registration' = RegistrationResponse(redirect_uris, 400,
                                   "redirect_uris required", None, registration.count)
            /\ UNCHANGED users
       ELSE /\ registration' = RegistrationResponse(redirect_uris, 200, None,
                                   ClientName(registration.count + 1),
                                   registration.count + 1)
            /\ UNCHANGED users
    /\ UNCHANGED <<now, auth_codes, http, logins, inflight,
                   clientVars, toolVars, ticketVars, collectorVars, moreVars>>

-----------------------------------------------------------------------------
(* mock_idp.py: POST /login, statement by statement, for overlapping requests. *)
(* The handler is a coroutine without an await, so the event loop runs it to   *)
(* its end before it starts another; the steps below may interleave freely,    *)
(* which covers that schedule and every other one.                             *)

\* at most this many /login requests overlap
MaxInflight == 2

RequestIds == 1..MaxInflight

LoginUserIds == {"linda_baker", "paul_morgan", "mallory"}

Idle ==
    [pc |-> "idle", user_id |-> None, auth_code |-> None, exp |-> 0,
     location |-> <<>>]

\* the codes uuid4 has returned so far: those stored and those held by a request
IssuedCodes == DOMAIN auth_codes \cup ({inflight[r].auth_code : r \in RequestIds} \ {None})

\* uuid.uuid4() while requests overlap: a value it has not returned before
FreshUuid4 == CodeName(Cardinality(IssuedCodes) + 1)

\* faulty variant: the table is rebuilt with the new entry alone
StoreCodeReplacing(table, auth_code, entry) == [c \in {auth_code} |-> entry]

\* auth_codes[auth_code] = {...}
StoreCode(table, auth_code, entry) ==
    [c \in DOMAIN table \cup {auth_code} |-> IF c = auth_code THEN entry ELSE table[c]]

LoginFrame ==
    UNCHANGED <<users, http, logins, registration,
                clientVars, toolVars, ticketVars, collectorVars, moreVars>>

\* the request arrives and line 187 tests the user id
LoginArrive(r, user_id) ==
    /\ inflight[r].pc = "idle"
    /\ inflight' = [inflight EXCEPT ![r] =
          IF user_id \notin DOMAIN users
          THEN [Idle EXCEPT !.pc = "done", !.user_id = user_id,
                            !.location = LoginErrorUrl(<<"http://localhost/callback">>,
                                                       <<"xyz">>)]
          ELSE [Idle EXCEPT !.pc = "mint", !.user_id = user_id]]
    /\ UNCHANGED <<now, auth_codes>> /\ LoginFrame

\* auth_code = str(uuid.uuid4()); exp = int(time.time()) + EXP_TIME
LoginMint(r) ==
    /\ inflight[r].pc = "mint"
    /\ inflight' = [inflight EXCEPT ![r].pc = "store",
                                    ![r].auth_code = FreshUuid4,
                                    ![r].exp = IntTime(now) + EXP_TIME]
    /\ UNCHANGED <<now, auth_codes>> /\ LoginFrame

\* auth_codes[auth_code] = {"user_id": user_id, "exp": exp}
LoginStore(r) ==
    /\ inflight[r].pc = "store"
    /\ auth_codes' = StoreCode(auth_codes, inflight[r].auth_code,
                               [user_id |-> inflight[r].user_id, exp |-> inflight[r].exp])
    /\ inflight' = [inflight EXCEPT ![r].pc = "respond"]
    /\ UNCHANGED now /\ LoginFrame

\* the redirect to f"{redirect_uri}?code={auth_code}&state={state}"
LoginRespond(r) ==
    /\ inflight[r].pc = "respond"
    /\ inflight' = [inflight EXCEPT ![r].pc = "done",
                      ![r].location = LoginRedirectUrl(<<"http://localhost/callback">>,
                                                       inflight[r].auth_code, <<"xyz">>)]
    /\ UNCHANGED <<now, auth_codes>> /\ LoginFrame

\* one second passes
Tick ==
    /\ now + TicksPerSec \in Instants
    /\ now' = now + TicksPerSec
    /\ UNCHANGED auth_codes /\ UNCHANGED inflight /\ LoginFrame

-----------------------------------------------------------------------------
(* observability/collector.py: RagasDataCollector *)

\* at most this many samples are held
MaxSamples == 3

\* Python values: a str is its sequence of characters, a list or tuple its
\* sequence of items
NoneValue == [type |-> "NoneType", v |-> <<>>]
Str(chars) == [type |-> "str", v |-> chars]
List(items) == [type |-> "list", v |-> items]
Tuple(items) == [type |-> "tuple", v |-> items]

\* bool(x): None and empty strings and containers are false
Truthy(x) == x.type # "NoneType" /\ x.v # <<>>

\* str.strip(): the characters between the leading and the trailing blanks
RECURSIVE Strip(_)
Strip(chars) ==
    IF chars = <<>> THEN <<>>
    ELSE IF Head(chars) = " " THEN Strip(Tail(chars))
    ELSE IF chars[Len(chars)] = " " THEN Strip(SubSeq(chars, 1, Len(chars) - 1))
    ELSE chars

\* "not x or not x.strip()": the error it ends in, or "ok"; .strip() exists
\* on str only
RequiredText(x) ==
    IF ~Truthy(x) THEN "ValueError"
    ELSE IF x.type # "str" THEN "AttributeError"
    ELSE IF Strip(x.v) = <<>> THEN "ValueError"
    ELSE "ok"

\* [ctx.strip() for ctx in retrieved_contexts if ctx and ctx.strip()]
StrippedContexts(items) ==
    LET kept == SelectSeq(items, LAMBDA ctx : Truthy(ctx) /\ Strip(ctx.v) # <<>>) IN
    [i \in DOMAIN kept |-> Strip(kept[i].v)]

\* the outcome of add_single_turn and the sample it appends
SingleTurnOutcome(user_input, retrieved_contexts, response) ==
    IF RequiredText(user_input) # "ok" THEN RequiredText(user_input)
    ELSE IF retrieved_contexts.type # "list" THEN "ValueError"
    ELSE IF RequiredText(response) # "ok" THEN RequiredText(response)
    ELSE IF \E i \in DOMAIN retrieved_contexts.v :
               Truthy(retrieved_contexts.v[i]) /\ retrieved_contexts.v[i].type # "str"
    THEN "AttributeError"
    ELSE "ok"

SingleTurnSample(user_input, retrieved_contexts, response) ==
    [user_input |-> Strip(user_input.v),
     retrieved_contexts |-> StrippedContexts(retrieved_contexts.v),
     response |-> Strip(response.v)]

\* a LangChain message, or another object with or without a content attribute
Message(class, content) == [class |-> class, content |-> content]

\* _convert_langchain_to_ragas: the Ragas messages, in order; an object
\* without a content attribute is left out
ConvertLangchainToRagas(messages) ==
    LET kept == SelectSeq(messages, LAMBDA msg : msg.class # "object") IN
    [i \in DOMAIN kept |->
        IF kept[i].class \in {"HumanMessage", "AIMessage", "ToolMessage"}
        THEN kept[i]
        ELSE Message("HumanMessage", kept[i].content)]

\* the outcome of add_multi_turn
MultiTurnOutcome(messages) ==
    IF ~Truthy(messages) THEN "ValueError"
    ELSE IF messages.type # "list" THEN "ValueError"
    ELSE IF ConvertLangchainToRagas(messages.v) = <<>> THEN "ValueError"
    ELSE "ok"

MultiTurnSample(messages) == [messages |-> ConvertLangchainToRagas(messages.v)]

\* __len__
CollectorLen(c) == Len(c.single_turn_samples) + Len(c.multi_turn_samples)

NewCollector == [single_turn_samples |-> <<>>, multi_turn_samples |-> <<>>]

\* the last call, its arguments and its outcome ("ok" or the exception raised),
\* and the number of adds accepted since the last clear
Collected(call, args, outcome, adds) ==
    [call |-> call, args |-> args, outcome |-> outcome, adds |-> adds]

CollectorFrame ==
    UNCHANGED <<idpVars, clientVars, toolVars, loginVars, ticketVars, moreVars>>

\* faulty variant: the sample is appended before the response is validated
add_single_turn_AppendFirst(user_input, retrieved_contexts, response) ==
    LET outcome == SingleTurnOutcome(user_input, retrieved_contexts, response) IN
    /\ CollectorLen(collector) < MaxSamples
    /\ collector' =
         IF RequiredText(user_input) = "ok" /\ retrieved_contexts.type = "list"
         THEN [collector EXCEPT !.single_turn_samples =
                 Append(@, SingleTurnSample(user_input, retrieved_contexts, response))]
         ELSE collector
    /\ collected' = Collected("add_single_turn",
                              <<user_input, retrieved_contexts, response>>, outcome,
                              IF outcome = "ok" THEN collected.adds + 1
                              ELSE collected.adds)
    /\ CollectorFrame

add_single_turn(user_input, retrieved_contexts, response) ==
    LET outcome == SingleTurnOutcome(user_input, retrieved_contexts, response) IN
    /\ CollectorLen(collector) < MaxSamples
    /\ collector' =
         IF outcome = "ok"
         THEN [collector EXCEPT !.single_turn_samples =
                 Append(@, SingleTurnSample(user_input, retrieved_contexts, response))]
         ELSE collector
    /\ collected' = Collected("add_single_turn",
                              <<user_input, retrieved_contexts, response>>, outcome,
                              IF outcome = "ok" THEN collected.adds + 1
                              ELSE collected.adds)
    /\ CollectorFrame

add_multi_turn(messages) ==
    LET outcome == MultiTurnOutcome(messages) IN
    /\ CollectorLen(collector) < MaxSamples
    /\ collector' =
         IF outcome = "ok"
         THEN [collector EXCEPT !.multi_turn_samples =
                 Append(@, MultiTurnSample(messages))]
         ELSE collector
    /\ collected' = Collected("add_multi_turn", <<messages>>, outcome,
                              IF outcome = "ok" THEN collected.adds + 1
                              ELSE collected.adds)
    /\ CollectorFrame

clear ==
    /\ collector' = [single_turn_samples |-> <<>>, multi_turn_samples |-> <<>>]
    /\ collected' = Collected("clear", <<>>, "ok", 0)
    /\ CollectorFrame

\* the arguments of the calls
TextArgValues ==
    {NoneValue, Str(<<>>), Str(<<" ", " ">>), Str(<<" ", "q", " ">>), Str(<<"q">>)}
ContextArgValues ==
    {NoneValue, List(<<>>), List(<<Str(<<"c", " ">>), Str(<<" ">>)>>),
     Tuple(<<Str(<<"c">>)>>)}
MessageArgValues ==
    {NoneValue, List(<<>>), Tuple(<<Message("HumanMessage", "hi")>>),
     List(<<Message("object", None)>>),
     List(<<Message("HumanMessage", "hi"), Message("AIMessage", "hello")>>),
     List(<<Message("object", None), Message("str", "raw")>>)}

-----------------------------------------------------------------------------
(* mcp/organizations/server.py: a tool call repeated with another token *)

\* organizations claims a token can carry
OrganizationClaims == {<<>>, <<"Dallas_Police">>, <<"Allen_Firestation">>}

\* the client presents a token that differs from that of the call just served
\* in its organizations claim only; the call served is kept for comparison
Retry(organizations) ==
    /\ tool # NoCall /\ twin = NoTwin
    /\ access_token.present
    /\ "organizations" \in DOMAIN access_token.claims
    /\ organizations # access_token.claims.organizations
    /\ twin' = Twin(access_token, tool)
    /\ access_token' = [access_token EXCEPT !.claims.organizations = organizations]
    /\ tool' = NoCall
    /\ UNCHANGED <<idpVars, clientVars, db_users, loginVars, ticketVars,
                   collectorVars, registry, app_state>>

-----------------------------------------------------------------------------
(* rag/registry.py: RAGAgentRegistry *)

\* at most this many agents are registered
MaxAgents == 3

\* a RAG agent: the object, its name property, and whether initialize() finds
\* its document file (it raises FileNotFoundError otherwise)
Agent(id, name, loads) == [id |-> id, name |-> name, loads |-> loads]
NoAgent == Agent(0, None, FALSE)

\* agent.create_tool(): the Tool of that agent
AgentTool(agent) == [agent |-> agent.id, name |-> agent.name]

\* the calls get_all_tools makes on the agents, in order, the list it returns,
\* the agents it has initialized, and whether it ended in an exception
ToolsRun(events, tools, initialized, raised) ==
    [events |-> events, tools |-> tools, initialized |-> initialized, raised |-> raised]

\* faulty variant: the tool of an agent is created before the agent is initialized
RECURSIVE GetAllToolsCreateFirst(_)
GetAllToolsCreateFirst(agents) ==
    IF agents = <<>> THEN ToolsRun(<<>>, <<>>, {}, FALSE)
    ELSE LET agent == Head(agents)
             rest == GetAllToolsCreateFirst(Tail(agents)) IN
         IF ~agent.loads
         THEN ToolsRun(<< <<"create_tool", agent.id>>, <<"initialize", agent.id>> >>,
                       <<>>, {}, TRUE)
         ELSE ToolsRun(<< <<"create_tool", agent.id>>, <<"initialize", agent.id>> >>
                          \o rest.events,
                       IF rest.raised THEN <<>> ELSE <<AgentTool(agent)>> \o rest.tools,
                       {agent.id} \cup rest.initialized,
                       rest.raised)

\* the loop of get_all_tools over the agents from the given one on
RECURSIVE GetAllTools(_)
GetAllTools(agents) ==
    IF agents = <<>> THEN ToolsRun(<<>>, <<>>, {}, FALSE)
    ELSE LET agent == Head(agents)
             rest == GetAllTools(Tail(agents)) IN
         IF ~agent.loads
         THEN ToolsRun(<< <<"initialize", agent.id>> >>, <<>>, {}, TRUE)
         ELSE ToolsRun(<< <<"initialize", agent.id>>, <<"create_tool", agent.id>> >>
                          \o rest.events,
                       IF rest.raised THEN <<>> ELSE <<AgentTool(agent)>> \o rest.tools,
                       {agent.id} \cup rest.initialized,
                       rest.raised)

\* the loop of get_agent
RECURSIVE GetAgent(_, _)
GetAgent(agents, name) ==
    IF agents = <<>> THEN NoAgent
    ELSE IF Head(agents).name = name THEN Head(agents)
    ELSE GetAgent(Tail(agents), name)

\* the last call of the registry: its argument and what it returned
RegistryCall(name, arg, run, agent) ==
    [name |-> name, arg |-> arg, events |-> run.events, tools |-> run.tools,
     raised |-> run.raised, agent |-> agent]

\* RAGAgentRegistry(): no agent
NewRegistry ==
    [agents |-> <<>>, initialized |-> {},
     call |-> RegistryCall(None, None, ToolsRun(<<>>, <<>>, {}, FALSE), NoAgent)]

RegistryFrame ==
    UNCHANGED <<idpVars, clientVars, toolVars, loginVars, ticketVars, collectorVars,
                twin, app_state>>

\* register(agent)
registry_register(agent) ==
    /\ Len(registry.agents) < MaxAgents
    /\ registry' = [registry EXCEPT
                      !.agents = Append(@, agent),
                      !.call = RegistryCall("register", agent.name,
                                            ToolsRun(<<>>, <<>>, {}, FALSE), NoAgent)]
    /\ RegistryFrame

get_all_tools ==
    LET run == GetAllTools(registry.agents) IN
    /\ registry' = [registry EXCEPT
                      !.initialized = @ \cup run.initialized,
                      !.call = RegistryCall("get_all_tools", None, run, NoAgent)]
    /\ RegistryFrame

get_agent(name) ==
    /\ registry' = [registry EXCEPT
                      !.call = RegistryCall("get_agent", name,
                                            ToolsRun(<<>>, <<>>, {}, FALSE),
                                            GetAgent(registry.agents, name))]
    /\ RegistryFrame

\* the agents registered: two objects of one name, one of another name, and
\* one whose document file is missing
Agents ==
    {Agent(1, "msi_docs", TRUE), Agent(2, "kb", TRUE), Agent(3, "msi_docs", TRUE),
     Agent(4, "faq", FALSE)}
AgentNames == {"msi_docs", "kb", "nonexistent"}

-----------------------------------------------------------------------------
(* api/server.py: the collection step of chat_stream, and POST                *)
(* /api/admin/save-data, with Ragas collection enabled.  Neither has an await *)
(* between its first read and its last write of app.state.                    *)

\* app.state.auto_save_interval
auto_save_interval == 10
\* at most this many interactions are collected
MaxInteractions == 12

\* app.state.interaction_count, and the last request with its outcome
AppState(interaction_count, request, outcome) ==
    [interaction_count |-> interaction_count, request |-> request, outcome |-> outcome]

\* startup_event: interaction_count = 0
NewAppState == AppState(0, None, None)

ChatFrame ==
    UNCHANGED <<idpVars, clientVars, toolVars, loginVars, ticketVars, twin, registry>>

\* collector.save(data_file) followed by collector.clear(): when the file
\* cannot be written save raises, and clear is not reached
SaveThenClear(c, writable) == IF writable THEN NewCollector ELSE c

\* lines 247-281; messages is chunk.get("messages", []) of the last chunk, or
\* None when the agent streamed no chunk (chunk is unbound: NameError); writable
\* tells whether the data file can be written
chat_stream(messages, writable) ==
    LET count == app_state.interaction_count + 1
        added == [collector EXCEPT !.multi_turn_samples =
                    Append(@, MultiTurnSample(messages))] IN
    /\ app_state.interaction_count < MaxInteractions
    /\ IF messages.type # "list"
       THEN /\ app_state' = [app_state EXCEPT !.request = "chat_stream",
                                              !.outcome = "Failed to collect"]
            /\ UNCHANGED collectorVars
       ELSE IF ~Truthy(messages)
       THEN /\ app_state' = [app_state EXCEPT !.request = "chat_stream",
                                              !.outcome = "No messages to collect"]
            /\ UNCHANGED collectorVars
       ELSE IF MultiTurnOutcome(messages) # "ok"
       THEN /\ app_state' = [app_state EXCEPT !.request = "chat_stream",
                                              !.outcome = "Failed to collect"]
            /\ collected' = Collected("add_multi_turn", <<messages>>,
                                      MultiTurnOutcome(messages), collected.adds)
            /\ UNCHANGED collector
       ELSE IF count % auto_save_interval # 0
       THEN /\ app_state' = AppState(count, "chat_stream", "Collected")
            /\ collector' = added
            /\ collected' = Collected("add_multi_turn", <<messages>>, "ok",
                                      collected.adds + 1)
       ELSE /\ app_state' = AppState(count, "chat_stream",
                                     IF writable THEN "Auto-saved"
                                     ELSE "Failed to collect")
            /\ collector' = SaveThenClear(added, writable)
            /\ collected' = IF collector' = NewCollector
                            THEN Collected("clear", <<>>, "ok", 0)
                            ELSE Collected("add_multi_turn", <<messages>>, "ok",
                                           collected.adds + 1)
    /\ ChatFrame

\* lines 101-131
save_collected_data(writable) ==
    /\ IF CollectorLen(collector) = 0
       THEN /\ app_state' = [app_state EXCEPT !.request = "save_collected_data",
                                              !.outcome = "No data to save"]
            /\ UNCHANGED collectorVars
       ELSE /\ app_state' = [app_state EXCEPT !.request = "save_collected_data",
                                              !.outcome = IF writable THEN "ok"
                                                          ELSE "error"]
            /\ collector' = SaveThenClear(collector, writable)
            /\ collected' = IF collector' = NewCollector
                            THEN Collected("clear", <<>>, "ok", 0)
                            ELSE collected
    /\ ChatFrame

\* the messages of the last chunk: none streamed, an empty state, a conversation
ChunkMessages ==
    {NoneValue, List(<<>>),
     List(<<Message("HumanMessage", "hi"), Message("AIMessage", "hello")>>)}

InitMore ==
    /\ twin = NoTwin
    /\ registry = NewRegistry
    /\ app_state = NewAppState

-----------------------------------------------------------------------------
(* Specifications *)

NoResponse ==
    [op |-> None, user_id |-> None, redirect_uri |-> <<>>, state |-> <<>>,
     code |-> None, at |-> 0, status |-> 0, detail |-> None,
     location |-> <<>>, token |-> NoToken]

InitIdp ==
    /\ now = 0
    /\ auth_codes = <<>>
    /\ users = UsersTable
    /\ http = NoResponse
    /\ logins = <<>>

InitClient ==
    /\ oauth = [o \in OAuthObjects |-> NoToken]
    /\ rs = NoRequest

InitTools ==
    /\ access_token = NoAccessToken
    /\ db_users = [ok |-> TRUE, rows |-> <<>>]
    /\ tool = NoCall

InitExt ==
    /\ inflight = [r \in RequestIds |-> Idle]
    /\ registration = NoRegistration
    /\ db_tickets = [ok |-> TRUE, rows |-> <<>>]
    /\ db_organizations = [ok |-> TRUE, rows |-> <<>>]
    /\ tk = NoTkCall
    /\ collector = NewCollector
    /\ collected = Collected(None, <<>>, None, 0)
    /\ InitMore

\* the identity provider, serving /login and /token while time passes
Init == InitIdp /\ InitClient /\ InitTools /\ InitExt

Next ==
    \/ \E user_id \in UserIds, redirect_uri \in RedirectUris, state \in States :
          login_post(user_id, redirect_uri, state) /\ UNCHANGED <<clientVars, toolVars, extVars>>
    \/ \E code \in CodeInputs : token(code) /\ UNCHANGED <<clientVars, toolVars, extVars>>
    \/ Advance /\ UNCHANGED <<clientVars, toolVars, extVars>>

Spec == Init /\ [][Next]_vars

\* single sign-on: one login and exchange, then tool calls over both connections
SsoUserIds == {"linda_baker"}

NextSSO ==
    \/ \E user_id \in SsoUserIds :
          /\ login_post(user_id, <<"http://localhost/callback">>, <<"xyz">>)
          /\ UNCHANGED <<clientVars, toolVars, extVars>>
    \/ \E code \in CodeIds : token(code) /\ UNCHANGED <<clientVars, toolVars, extVars>>
    \/ Advance /\ UNCHANGED <<clientVars, toolVars, extVars>>
    \/ \E o \in OAuthObjects : ClientObtainToken(o)
    \/ \E c \in DOMAIN McpConnections : ToolRequest(c)

SpecSSO == Init /\ [][NextSSO]_vars

\* a resource server, presented with arbitrary bearer tokens while time passes
NextRS ==
    \/ \E server \in Servers, bearer \in Bearers : BearerRequest(server, bearer)
    \/ Advance /\ UNCHANGED <<clientVars, toolVars, extVars>>

SpecRS == Init /\ [][NextRS]_vars

\* the tools of the organizations server, over some users table
InitOrg ==
    /\ InitIdp /\ InitClient /\ InitExt
    /\ access_token = NoAccessToken
    /\ db_users \in Databases
    /\ tool = NoCall

NextOrg ==
    \/ \E token_ \in AccessTokens : Request(token_)
    \/ \E allowed_roles \in AllowedRoleArgs : CallCheckRoles(allowed_roles)
    \/ \E organization \in OrganizationArgs : CallGetOrganizationUsers(organization)
    \/ \E organization \in OrganizationArgs, usernames \in UsernameArgs :
          CallCompareUserPermissions(organization, usernames)

SpecOrg == InitOrg /\ [][NextOrg]_vars

\* the identity provider serving overlapping /login requests and /register;
\* the code table may hold the entry of an earlier login
InitLogin ==
    /\ now = 0
    /\ \E earlier \in {<<>>, [c \in {CodeName(1)} |-> AuthCodeEntry("admin", 0)]} :
         /\ auth_codes = earlier
         /\ logins = [c \in DOMAIN earlier |-> earlier[c].user_id]
    /\ users = UsersTable
    /\ http = NoResponse
    /\ InitClient /\ InitTools /\ InitExt

NextLogin ==
    \/ \E r \in RequestIds, user_id \in LoginUserIds : LoginArrive(r, user_id)
    \/ \E r \in RequestIds : LoginMint(r)
    \/ \E r \in RequestIds : LoginStore(r)
    \/ \E r \in RequestIds : LoginRespond(r)
    \/ Tick
    \/ \E redirect_uris \in RegisterUriArgs : register(redirect_uris)

SpecLogin == InitLogin /\ [][NextLogin]_vars

\* the tools of both resource servers, over some tables
InitServers ==
    /\ InitIdp /\ InitClient
    /\ access_token = NoAccessToken
    /\ db_users \in UserDatabases
    /\ tool = NoCall
    /\ inflight = [r \in RequestIds |-> Idle]
    /\ registration = NoRegistration
    /\ db_tickets \in TicketDatabases
    /\ db_organizations \in OrganizationDatabases
    /\ tk = NoTkCall
    /\ collector = NewCollector
    /\ collected = Collected(None, <<>>, None, 0)
    /\ InitMore

NextServers ==
    \/ \E token_ \in AccessTokens : Request(token_)
    \/ \E title \in TextArgs, description \in TextArgs : CallCreateTicket(title, description)
    \/ \E ticket_id \in TicketIdArgs, resolution_description \in TextArgs :
          CallResolveTicket(ticket_id, resolution_description)
    \/ \E username \in TicketUserArgs : CallGetTicketsByUser(username)
    \/ \E status \in TicketStatusArgs : CallGetTicketsByStatus(status)
    \/ CallGetOrganizations
    \/ \E organization \in Organizations : CallGetOrganizationUsers(organization)
    \/ \E organization \in Organizations :
          CallCompareUserPermissions(organization, <<"linda_baker">>)

SpecServers == InitServers /\ [][NextServers]_vars

\* a RagasDataCollector, called with valid and invalid arguments
NextCollector ==
    \/ \E user_input \in TextArgValues, retrieved_contexts \in ContextArgValues,
          response \in TextArgValues :
          add_single_turn(user_input, retrieved_contexts, response)
    \/ \E messages \in MessageArgValues : add_multi_turn(messages)
    \/ clear

SpecCollector == Init /\ [][NextCollector]_vars

\* the organizations server, each call of which may be repeated with a token
\* that differs in its organizations claim
TwinDatabases ==
    {[ok |-> TRUE, rows |-> rows] :
        rows \in {<<>>,
                  <<UserRow("linda_baker", "Dallas_Police",
                            <<"edit_users", ",", "view_agency_users">>)>>,
                  <<UserRow("paul_morgan", "Allen_Firestation",
                            <<"view_agency_users", ",", "run_reports">>),
                    UserRow("linda_baker", "Dallas_Police", <<"edit_users">>)>>}}

InitTwin ==
    /\ InitIdp /\ InitClient /\ InitExt
    /\ access_token = NoAccessToken
    /\ db_users \in TwinDatabases
    /\ tool = NoCall

NextTwin ==
    \/ \E token_ \in AccessTokens : Request(token_)
    \/ \E organization \in Organizations : CallGetOrganizationUsers(organization)
    \/ \E organization \in Organizations :
          CallCompareUserPermissions(organization, <<"linda_baker", "paul_morgan">>)
    \/ \E organizations \in OrganizationClaims : Retry(organizations)

SpecTwin == InitTwin /\ [][NextTwin]_vars

\* a registry, from its construction on
NextRegistry ==
    \/ \E agent \in Agents : registry_register(agent)
    \/ get_all_tools
    \/ \E name \in AgentNames : get_agent(name)

SpecRegistry == Init /\ [][NextRegistry]_vars

\* the chat API after startup_event, collection enabled
NextChat ==
    \/ \E messages \in ChunkMessages, writable \in BOOLEAN : chat_stream(messages, writable)
    \/ \E writable \in BOOLEAN : save_collected_data(writable)

SpecChat == Init /\ [][NextChat]_vars

-----------------------------------------------------------------------------
(* How the receiver of a redirect reads its URL (RFC 3986): the fragment      *)
(* follows the first "#", the query the first "?", the pairs of the query are *)
(* separated by "&", and a pair's name ends at its first "=".                 *)

Before(str, sep) ==
    LET at == {i \in 1..Len(str) : str[i] = sep} IN
    IF at = {} THEN str ELSE SubSeq(str, 1, Min(at) - 1)

After(str, sep) ==
    LET at == {i \in 1..Len(str) : str[i] = sep} IN
    IF at = {} THEN <<>> ELSE SubSeq(str, Min(at) + 1, Len(str))

UrlQuery(url) == After(Before(url, "#"), "?")

\* the values the query of url gives for the parameter name, in order
QueryValues(url, name) ==
    LET pairs == SelectSeq(Split(UrlQuery(url), "&"), LAMBDA p : Before(p, "=") = <<name>>)
    IN [i \in DOMAIN pairs |-> After(pairs[i], "=")]

IsPrefix(p, str) == Len(p) <= Len(str) /\ SubSeq(str, 1, Len(p)) = p

-----------------------------------------------------------------------------
(* Claims about the identity provider, checked under Spec *)

TokenOk == http.op = "token" /\ http.status = 200
TokenFor(code) == http.op = "token" /\ http.code = code
ExpiryTick(code) == auth_codes[code].exp * TicksPerSec

\* C1: authorization codes are one-time-use: once a /token exchange of a code
\* has returned an access token, a later /token exchange of the same code does
\* not return another one.  (Stated on two responses in a row: the response
\* that follows a successful exchange of a code is not a further successful
\* exchange of that code.)
C1_OneTimeUse ==
    [][~(/\ TokenOk
         /\ TokenOk'
         /\ http'.code = http.code
         /\ http' # http)]_vars

\* C2: a /login by a user U of the directory followed by a /token exchange of
\* the returned code before its expiry yields a token whose sub is U, whose
\* roles and organizations are those of U's directory record, and whose aud
\* holds the URL of every resource server, whatever redirect_uri and state the
\* login carried.
C2_TokenCarriesIdentity ==
    \A code \in DOMAIN logins :
        (TokenFor(code) /\ http.at < ExpiryTick(code)) =>
            /\ http.status = 200
            /\ http.token.key = IdpKey
            /\ http.token.claims.sub = logins[code]
            /\ http.token.claims.roles = UsersTable[logins[code]].roles
            /\ http.token.claims.organizations = UsersTable[logins[code]].organizations
            /\ {TICKETING_URL, ORGANIZATIONS_URL} \subseteq Range(http.token.claims.aud)

C2_Witness ==
    /\ TokenOk
    /\ http.code \in DOMAIN logins
    /\ logins[http.code] = "admin"
    /\ http.token.claims.roles = <<"admin">>
    /\ http.at > 0

\* C3: for every username that is not in the directory, POST /login answers
\* with a redirect to the submitted redirect_uri whose query carries
\* error=access_denied and the submitted state, unchanged.
C3_DeniedLoginEchoesState ==
    (http.op = "login" /\ http.user_id \notin DOMAIN UsersTable) =>
        /\ http.status = 302
        /\ IsPrefix(http.redirect_uri, http.location)
        /\ QueryValues(http.location, "error") = << <<"access_denied">> >>
        /\ QueryValues(http.location, "state") = << http.state >>

\* C4: a /token exchange performed at a time after the code's expires_at always
\* fails with the expired-code error and returns no access token.
C4_ExpiredCodeRejected ==
    \A code \in DOMAIN auth_codes :
        (TokenFor(code) /\ http.at > ExpiryTick(code)) =>
            /\ http.status = 400
            /\ http.detail = "auth code expired"
            /\ http.token = NoToken

C4_Witness ==
    /\ http.op = "token"
    /\ http.code \in DOMAIN auth_codes
    /\ http.at = ExpiryTick(http.code) + 1
    /\ http.detail = "auth code expired"

\* C5, as claimed: the expiry bound is inclusive, an exchange at exactly
\* now = expires_at (and at every now >= expires_at) fails with the
\* expired-code error.
C5_InclusiveExpiry ==
    \A code \in DOMAIN auth_codes :
        (TokenFor(code) /\ http.at >= ExpiryTick(code)) =>
            http.detail = "auth code expired"

\* C5, amended: the expiry bound is exclusive, an exchange fails with the
\* expired-code error exactly when now > expires_at; at now = expires_at the
\* code is still redeemed.
C5_ExclusiveExpiry ==
    \A code \in DOMAIN auth_codes :
        TokenFor(code) =>
            /\ (http.detail = "auth code expired") <=> (http.at > ExpiryTick(code))
            /\ (http.at <= ExpiryTick(code)) => http.status = 200

C5_Witness ==
    /\ TokenOk
    /\ http.code \in DOMAIN auth_codes
    /\ http.at = ExpiryTick(http.code)

\* C6: POST /token fails with the invalid-code client error for every code that
\* is not a key of the code table; an access token is issued only for a code
\* that a successful /login created, and its sub is the user of that login.
C6_UnknownCodeRejected ==
    /\ (http.op = "token" /\ http.code \notin DOMAIN auth_codes) =>
           /\ http.status = 400
           /\ http.detail = "invalid auth code"
           /\ http.token = NoToken
    /\ TokenOk =>
           /\ http.code \in DOMAIN logins
           /\ http.token.claims.sub = logins[http.code]
    /\ DOMAIN logins = DOMAIN auth_codes

C6_Witness ==
    /\ http.op = "token"
    /\ http.code = "guess"
    /\ http.status = 400
    /\ auth_codes # <<>>

-----------------------------------------------------------------------------
(* Claims about the resource servers *)

Handled == rs.server # None

\* C7: a resource server's verifier lets a request through only when the
\* signature verifies against the issuer's published key, iss is the
\* authorization server's URL, the server's own URL is a member of aud, and
\* now < exp; otherwise the request is rejected, no claims reach the tool and
\* the tool does not run.  A validly signed token whose aud lacks the server's
\* URL is always rejected.  (Checked under SpecRS.)
C7_VerifierGate ==
    Handled =>
        /\ rs.executed <=>
              /\ rs.bearer.key = IdpKey
              /\ rs.bearer.claims.iss = ISSUER_URL
              /\ ServerUrl(rs.server) \in Range(rs.bearer.claims.aud)
              /\ rs.at < rs.bearer.claims.exp * TicksPerSec
        /\ rs.executed => rs.status = 200 /\ rs.claims = rs.bearer.claims
        /\ ~rs.executed => rs.status = 401 /\ rs.claims = NoClaims

C7_Witness ==
    /\ Handled
    /\ rs.bearer.key = IdpKey
    /\ rs.bearer.claims.iss = ISSUER_URL
    /\ rs.at < rs.bearer.claims.exp * TicksPerSec
    /\ rs.bearer.claims.aud = <<TICKETING_URL>>
    /\ rs.server = "organizations"
    /\ rs.status = 401

\* the token each connection presents
Presented(c) == oauth[McpConnections[c].auth]

\* C8: single sign-on: the token of one login and one exchange is accepted by
\* the verifier of every resource server at every time in [iat, exp), and both
\* client connections present that same token.  (Checked under SpecSSO.)
C8_SingleSignOn ==
    /\ \A c1, c2 \in DOMAIN McpConnections : Presented(c1) = Presented(c2)
    /\ \A c \in DOMAIN McpConnections :
          Presented(c) # NoToken =>
             \A t \in Instants :
                (/\ Presented(c).claims.iat * TicksPerSec <= t
                 /\ t < Presented(c).claims.exp * TicksPerSec) =>
                    HandleRequest(ServerAt(McpConnections[c].url), Presented(c), t).executed
    /\ (/\ Handled
        /\ rs.bearer.claims.iat * TicksPerSec <= rs.at
        /\ rs.at < rs.bearer.claims.exp * TicksPerSec) =>
           rs.executed /\ rs.claims.sub = rs.bearer.claims.sub

C8_Witness ==
    /\ Cardinality(DOMAIN auth_codes) = 1
    /\ rs.server = "organizations"
    /\ rs.executed
    /\ rs.bearer = Presented("ticketing")
    /\ rs.at > rs.bearer.claims.iat * TicksPerSec

-----------------------------------------------------------------------------
(* Claims about the tools, checked under SpecOrg *)

CallerRoles == IF HasRoles THEN Range(access_token.claims.roles) ELSE {}

\* C9: check_roles(allowed_roles) returns True exactly when the roles claim of
\* the current token shares a role with allowed_roles, and returns False in
\* every other case, also without an access token or without a roles claim.
C9_CheckRolesTotal ==
    tool.name = "check_roles" =>
        /\ tool.result.kind = "bool"
        /\ tool.result.value <=> (CallerRoles \cap Range(tool.allowed_roles) # {})

OrgScopedTools == {"get_organization_users", "compare_user_permissions"}

\* C10: a caller whose token roles contain admin passes the organization-scoped
\* check of get_organization_users and compare_user_permissions for every
\* organization, with or without a permission row for that caller and
\* organization: the call is never refused for lack of permission, and it
\* returns its data whenever its arguments are given and the table can be read.
C10_AdminPasses ==
    (tool.name \in OrgScopedTools /\ "admin" \in CallerRoles) =>
        /\ tool.result.error # E_Denied
        /\ (/\ db_users.ok
            /\ tool.organization # ""
            /\ tool.name = "compare_user_permissions" => tool.usernames # <<>>) =>
               tool.result.kind \in {"users", "comparison"}

C10_Witness ==
    /\ tool.name = "get_organization_users"
    /\ "admin" \in CallerRoles
    /\ db_users.ok /\ db_users.rows # <<>>
    /\ RowsOf(get_username, tool.organization) = <<>>
    /\ tool.result.kind = "users"
    /\ tool.result.users # <<>>

-----------------------------------------------------------------------------
(* Claims about the organization-scoped tools, checked under SpecOrg *)

\* the permissions a row of the users table lists, each a string of one token
Held(row) ==
    {<<row.organization_permissions[i]>> :
        i \in {j \in DOMAIN row.organization_permissions :
                 row.organization_permissions[j] # ","}}

\* the places of the table that hold a row for (username, organization)
RowsFor(username, organization) ==
    {i \in DOMAIN db_users.rows :
        /\ db_users.rows[i].username = username
        /\ db_users.rows[i].organization = organization}

\* the caller has a row for the requested organization, and the row the table
\* yields for the pair (its first one) lists view_agency_users
CallerMayView ==
    LET at == RowsFor(access_token.claims.sub, tool.organization) IN
    /\ at # {}
    /\ <<"view_agency_users">> \in Held(db_users.rows[Min(at)])

\* a call of an organization-scoped tool with its arguments given, by a caller
\* whose token has a roles claim without admin, over a readable table
NonAdminOrgCall ==
    /\ tool.name \in OrgScopedTools
    /\ HasRoles /\ "admin" \notin CallerRoles
    /\ db_users.ok
    /\ tool.organization # ""
    /\ tool.name = "compare_user_permissions" => tool.usernames # <<>>

\* C11: for a caller without the admin role the organization-scoped check
\* allows the request if and only if the users table has a row for (the
\* caller's sub, the requested organization) whose permissions contain
\* view_agency_users; without such a row the request is refused with the
\* permission error, and an allowed get_organization_users returns the
\* usernames of the organization.
C11_OrgCheckFailClosed ==
    NonAdminOrgCall =>
        /\ tool.result.kind \in {"users", "comparison"} <=> CallerMayView
        /\ ~CallerMayView =>
              /\ tool.result.kind = "error"
              /\ tool.result.error = E_Denied
              /\ tool.result.users = <<>>
        /\ (CallerMayView /\ tool.name = "get_organization_users") =>
              /\ Len(tool.result.users) =
                    Cardinality({i \in DOMAIN db_users.rows :
                                   db_users.rows[i].organization = tool.organization})
              /\ \A i \in DOMAIN db_users.rows :
                    db_users.rows[i].organization = tool.organization =>
                       db_users.rows[i].username \in Range(tool.result.users)

C11_Witness ==
    /\ NonAdminOrgCall
    /\ tool.name = "get_organization_users"
    /\ access_token.claims.sub = "paul_morgan"
    /\ tool.organization = "Dallas_Police"
    /\ RowsFor("paul_morgan", "Dallas_Police") = {}
    /\ RowsFor("paul_morgan", "Allen_Firestation") # {}
    /\ RowsFor("linda_baker", "Dallas_Police") # {}
    /\ tool.result.error = E_Denied

\* the permission set on record for a target in the requested organization
RecordedPermissions(u) ==
    UNION {Held(db_users.rows[i]) : i \in RowsFor(u, tool.organization)}

\* every target has at most one row, and none in another organization, so
\* that its permission set on record is a single one
TargetsUnambiguous ==
    \A i, j \in DOMAIN db_users.rows :
        db_users.rows[i].username \in Range(tool.usernames) =>
            /\ db_users.rows[i].organization = tool.organization
            /\ db_users.rows[j].username = db_users.rows[i].username => i = j

C13_EmptyListIsNormal ==
    (/\ tool.name = "compare_user_permissions"
     /\ tool.usernames = <<>>
     /\ tool.organization # ""
     /\ db_users.ok
     /\ "admin" \in CallerRoles) =>
        /\ tool.result.kind = "comparison"
        /\ tool.result.error = None
        /\ tool.result.shared = {}
        /\ tool.result.unique = <<>>

\* C14: compare_user_permissions checks the caller before it reads any
\* target: when the caller is refused, the result holds the error alone, no
\* shared_permissions and no unique_to_* entry of any target.
C14_DeniedSeesNothing ==
    (/\ NonAdminOrgCall
     /\ tool.name = "compare_user_permissions"
     /\ ~CallerMayView) =>
        /\ tool.result.kind = "error"
        /\ tool.result.error = E_Denied
        /\ tool.result.shared = {}
        /\ tool.result.unique = <<>>

C14_Witness ==
    /\ NonAdminOrgCall
    /\ tool.name = "compare_user_permissions"
    /\ ~CallerMayView
    /\ tool.result.error = E_Denied
    /\ \E u \in Range(tool.usernames) : RecordedPermissions(u) # {}

-----------------------------------------------------------------------------
(* Claims about the tools of both resource servers, checked under SpecServers *)

TkCalled(names) == tk.name \in names /\ access_token.present
ToolCalled(names) == tool.name \in names /\ access_token.present

\* the caller names a user other than itself
NamesAnother == tk.arg \notin {None, "", get_username}

\* C15: every refusal for lack of authorization by a guarded tool of either
\* server (resolve_ticket, get_tickets_by_user, get_tickets_by_status,
\* get_organization_users, compare_user_permissions, get_organizations) is
\* returned as a dict with an "error" key and never raised, whatever the
\* token's claims, a token without a roles claim included.
C15_DenialsAreStructured ==
    /\ (TkCalled({"resolve_ticket", "get_tickets_by_status"}) /\ "admin" \notin CallerRoles)
          => (tk.result.kind = "dict" /\ tk.result.error # None)
    /\ (TkCalled({"get_tickets_by_user"}) /\ "admin" \notin CallerRoles /\ NamesAnother)
          => (tk.result.kind = "dict" /\ tk.result.error # None)
    /\ (ToolCalled({"get_organizations"}) /\ "admin" \notin CallerRoles)
          => tool.result.kind = "error"
    /\ (ToolCalled(OrgScopedTools) /\ "admin" \notin CallerRoles /\ ~CallerMayView)
          => tool.result.kind = "error"

\* the tickets of the table that username has created, as the tools return them
TicketsOf(username) ==
    {TicketJson(db_tickets.rows[i]) :
        i \in {j \in DOMAIN db_tickets.rows : db_tickets.rows[j].username = username}}

\* C18: get_tickets_by_user returns tickets of a user other than the caller
\* only to a caller with the admin role; a caller without it who names another
\* user gets the permission error and no ticket; a caller who gives no
\* username gets the tickets whose username is its own sub, and only those.
C18_OwnTicketsOnly ==
    TkCalled({"get_tickets_by_user"}) =>
        /\ (tk.result.tickets \ TicketsOf(get_username) # {}) => "admin" \in CallerRoles
        /\ (HasRoles /\ "admin" \notin CallerRoles /\ NamesAnother) =>
              /\ tk.result.kind = "dict"
              /\ tk.result.error = E_TkDeniedUser
              /\ tk.result.tickets = {}
        /\ (HasRoles /\ tk.arg = None /\ db_tickets.ok) =>
              /\ tk.result.kind = "dict"
              /\ tk.result.error = None
              /\ tk.result.tickets = TicketsOf(get_username)

\* C19: resolve_ticket, get_tickets_by_status and get_organizations give a
\* caller whose token roles do not include admin the permission error and no
\* ticket or organization data, and leave the tickets table as it was.
C19_AdminOnlyTools ==
    (HasRoles /\ "admin" \notin CallerRoles) =>
        /\ TkCalled({"resolve_ticket", "get_tickets_by_status"}) =>
              /\ tk.result.kind \in {"str", "dict"}
              /\ E_TkDenied \in {tk.result.text, tk.result.error}
              /\ tk.result.tickets = {}
              /\ db_tickets.rows = tk.before
        /\ ToolCalled({"get_organizations"}) =>
              /\ tool.result.kind = "error"
              /\ tool.result.error = E_DeniedTool
              /\ tool.result.organizations = {}

C19_Witness ==
    /\ HasRoles /\ "admin" \notin CallerRoles
    /\ tk.name = "resolve_ticket"
    /\ tk.arg = "text"
    /\ \E i \in DOMAIN db_tickets.rows :
          /\ db_tickets.rows[i].id = tk.ticket_id
          /\ db_tickets.rows[i].status = "active"
    /\ tk.result.text = E_TkDenied

-----------------------------------------------------------------------------
(* Claims about overlapping requests at the identity provider, checked under *)
(* SpecLogin                                                                 *)

\* C16: for every interleaving of overlapping /login requests, each code a
\* request has stored is in the code table with that request's user_id and
\* expiry, no two requests hold the same code, and the entries of earlier
\* logins are still as they were stored.
C16_ConcurrentLogins ==
    /\ \A r \in RequestIds :
          (inflight[r].pc \in {"respond", "done"} /\ inflight[r].auth_code # None) =>
             /\ inflight[r].auth_code \in DOMAIN auth_codes
             /\ auth_codes[inflight[r].auth_code] =
                   [user_id |-> inflight[r].user_id, exp |-> inflight[r].exp]
    /\ \A r1, r2 \in RequestIds :
          (r1 # r2 /\ inflight[r1].auth_code # None) =>
             inflight[r1].auth_code # inflight[r2].auth_code
    /\ \A c \in DOMAIN logins :
          c \in DOMAIN auth_codes /\ auth_codes[c] = AuthCodeEntry(logins[c], 0)

\* request 2 computed its expiry a second before request 1 did and has not
\* answered yet, request 1 is done: the two overlapped
C16_Witness ==
    /\ inflight[1].pc = "done" /\ inflight[1].user_id = "linda_baker"
    /\ inflight[2].pc = "respond" /\ inflight[2].user_id = "paul_morgan"
    /\ inflight[2].exp < inflight[1].exp
    /\ DOMAIN logins # {}
    /\ Cardinality(DOMAIN auth_codes) = 3

Registered == registration.status # 0

\* C17: POST /register fails with a client error when redirect_uris is empty
\* and otherwise returns a newly generated client_id with exactly the
\* redirect_uris submitted; in both cases the code table and the user
\* directory are left unchanged.
C17_Register ==
    /\ [](Registered =>
            /\ registration.request = <<>> =>
                  /\ registration.status = 400
                  /\ registration.client_id = None
            /\ registration.request # <<>> =>
                  /\ registration.status = 200
                  /\ registration.client_id # None
                  /\ registration.redirect_uris = registration.request)
    /\ [][registration' # registration =>
            /\ auth_codes' = auth_codes
            /\ users' = users
            /\ registration'.status = 200 =>
                  registration'.client_id # registration.client_id]_vars

C17_Witness ==
    /\ registration.status = 200
    /\ Len(registration.redirect_uris) = 2
    /\ registration.count = 2
    /\ Cardinality(DOMAIN auth_codes) >= 2

-----------------------------------------------------------------------------
(* Claims about RagasDataCollector, checked under SpecCollector *)

\* None, "" or a string of blanks
Blank(x) == x.type = "NoneType" \/ (x.type = "str" /\ \A i \in DOMAIN x.v : x.v[i] = " ")

\* C20: after any sequence of add_single_turn, add_multi_turn and clear calls
\* len(collector) is the number of adds accepted since the last clear: an add
\* with an empty or blank user_input or response, with contexts that are not
\* a list, or with messages that are empty or not a list raises ValueError; a
\* rejected add leaves both lists as they were, an accepted add makes the
\* length one more, and clear makes it zero.
C20_LenCountsAcceptedAdds ==
    /\ [](/\ CollectorLen(collector) = collected.adds
          /\ (/\ collected.call = "add_single_turn"
              /\ \/ Blank(collected.args[1])
                 \/ collected.args[2].type # "list"
                 \/ Blank(collected.args[3])) => collected.outcome = "ValueError"
          /\ (/\ collected.call = "add_multi_turn"
              /\ \/ collected.args[1].type # "list"
                 \/ collected.args[1].v = <<>>) => collected.outcome = "ValueError")
    /\ [][/\ collected'.outcome # "ok" => collector' = collector
          /\ collected'.adds = collected.adds + 1 =>
                CollectorLen(collector') = CollectorLen(collector) + 1
          /\ collected'.call = "clear" => CollectorLen(collector') = 0]_vars

C20_Witness ==
    /\ collected.call = "add_single_turn"
    /\ collected.outcome = "ValueError"
    /\ Blank(collected.args[3])
    /\ ~Blank(collected.args[1])
    /\ collected.args[2].type = "list"
    /\ collected.adds = 2
    /\ Len(collector.single_turn_samples) = 1
    /\ Len(collector.multi_turn_samples) = 1

-----------------------------------------------------------------------------
(* Claims about the targets of compare_user_permissions, checked under SpecOrg *)

\* the permission set the table records for (u, the requested organization):
\* that of the first row of the pair, empty when the pair has no row
PairPermissions(u) ==
    LET at == RowsFor(u, tool.organization) IN
    IF at = {} THEN {} ELSE Held(db_users.rows[Min(at)])

\* C22: in a comparison, the permission set of each target (its unique_to
\* entry together with shared_permissions) is the one recorded for (the
\* target's username, the requested organization), and is empty when the
\* table has no row for that pair; permissions the target holds in another
\* organization never appear.
C22_TargetsScopedToOrganization ==
    (/\ tool.name = "compare_user_permissions"
     /\ tool.result.kind = "comparison") =>
        \A u \in Range(tool.usernames) :
            /\ u \in DOMAIN tool.result.unique
            /\ tool.result.unique[u] \cup tool.result.shared = PairPermissions(u)

-----------------------------------------------------------------------------
(* Further claims about the identity provider, checked under Spec *)

\* C23: every access token /token issues has iat equal to the time of the
\* exchange, in whole seconds, and exp equal to iat + EXP_TIME, so that
\* exp - iat = 600.
C23_LifetimeIsExpTime ==
    TokenOk =>
        /\ http.token.claims.iat \in IntTime(http.at)..IntTime(now)
        /\ http.token.claims.exp = http.token.claims.iat + EXP_TIME


\* C24: a /login submission with a username of the directory answers with a
\* code that was not a key of the code table before, records under it exactly
\* {user_id = the submitted username, exp = time of the login + EXP_TIME},
\* changes no other entry, and redirects to the submitted redirect_uri with
\* that code and the submitted state, unchanged, in the query.
C24_LoginMintsAndRedirects ==
    [][(http'.op = "login" /\ http' # http /\ http'.user_id \in DOMAIN users) =>
          /\ http'.code \notin DOMAIN auth_codes
          /\ DOMAIN auth_codes' = DOMAIN auth_codes \cup {http'.code}
          /\ auth_codes'[http'.code] =
                [user_id |-> http'.user_id, exp |-> IntTime(now) + EXP_TIME]
          /\ \A c \in DOMAIN auth_codes : auth_codes'[c] = auth_codes[c]
          /\ http'.status = 302
          /\ IsPrefix(http'.redirect_uri, http'.location)
          /\ QueryValues(http'.location, "code") = << <<http'.code>> >>
          /\ QueryValues(http'.location, "state") = << http'.state >>]_vars


\* C25: in every reachable state each entry of the code table has a user_id
\* that is a key of the user directory, and an exchange of a code issued for
\* user U resolves to exactly U's record: the token's sub, roles and
\* organizations are those of users[U].  Hence /token never fails with
\* "user id not found".
C25_CodesResolveToTheirUser ==
    /\ \A c \in DOMAIN auth_codes : auth_codes[c].user_id \in DOMAIN users
    /\ http.op = "token" => http.status # 401 /\ http.detail # "user id not found"
    /\ TokenOk =>
          /\ http.code \in DOMAIN logins
          /\ logins[http.code] \in DOMAIN users
          /\ http.token.claims.sub = users[logins[http.code]].sub
          /\ http.token.claims.sub = logins[http.code]
          /\ http.token.claims.roles = users[logins[http.code]].roles
          /\ http.token.claims.organizations = users[logins[http.code]].organizations

C25_Witness ==
    /\ TokenOk
    /\ Cardinality(DOMAIN auth_codes) = 2
    /\ \E c \in DOMAIN auth_codes : c # http.code /\ auth_codes[c].user_id = "admin"
    /\ auth_codes[http.code].user_id = "linda_baker"
    /\ http.token.claims.sub = "linda_baker"
    /\ http.token.claims.roles = <<>>


\* C26: every /token request, successful or failed, leaves the code table
\* and the user directory as they were; no step ever removes or rewrites an
\* entry of the code table, so the table only grows; and a code that has been
\* redeemed is redeemed again by every further exchange made up to its expiry.
C26_TokenLeavesTablesAlone ==
    [][/\ users' = users
       /\ \A c \in DOMAIN auth_codes :
             c \in DOMAIN auth_codes' /\ auth_codes'[c] = auth_codes[c]
       /\ (http'.op = "token" /\ http' # http) => auth_codes' = auth_codes
       /\ (/\ TokenOk
           /\ http'.op = "token" /\ http' # http
           /\ http'.code = http.code
           /\ http'.at <= ExpiryTick(http.code)) => http'.status = 200]_vars

C26_Witness ==
    /\ TokenOk
    /\ Cardinality(DOMAIN auth_codes) = 2
    /\ http.code \in DOMAIN auth_codes
    /\ auth_codes[http.code] = AuthCodeEntry(logins[http.code], 0)
    /\ http.at = ExpiryTick(http.code)


\* C29: a rejected /login (a username the directory does not hold) adds no
\* entry to the code table and changes nothing else the identity provider
\* keeps; the code table changes only in a step that is a successful /login,
\* which adds the entry of the code it answers with.
C29_RejectedLoginHasNoEffect ==
    [][/\ (http'.op = "login" /\ http' # http /\ http'.user_id \notin DOMAIN users) =>
             /\ auth_codes' = auth_codes
             /\ users' = users
             /\ now' = now
             /\ http'.code = None
       /\ auth_codes' # auth_codes =>
             /\ http'.op = "login"
             /\ http'.user_id \in DOMAIN users
             /\ DOMAIN auth_codes' = DOMAIN auth_codes \cup {http'.code}
             /\ http'.code \notin DOMAIN auth_codes
             /\ auth_codes'[http'.code].user_id = http'.user_id]_vars

C29_Witness ==
    /\ http.op = "login"
    /\ http.user_id = "mallory"
    /\ http.status = 302
    /\ Cardinality(DOMAIN auth_codes) = 1
    /\ now > 0

-----------------------------------------------------------------------------
(* Claims about the life of a ticket, checked under SpecServers *)

\* the ticket a resolve_ticket call names, as it was before the call
Named(rows) == SelectSeq(rows, LAMBDA r : r.id = tk.ticket_id)

\* the call is one the claim has resolve_ticket act on: an administrator,
\* both arguments given, a readable table, the ticket there and active
ResolvableCall ==
    /\ tk.name = "resolve_ticket"
    /\ HasRoles /\ "admin" \in CallerRoles
    /\ tk.ticket_id # 0 /\ tk.arg # ""
    /\ db_tickets.ok
    /\ Named(tk.before) # <<>>
    /\ Named(tk.before)[1].status = "active"

\* C27: resolve_ticket modifies a ticket only when the caller has the admin
\* role and the ticket exists with status active, and it then sets the status
\* to resolved and records the resolution text and response_user = the
\* caller; in every other call the table is left as it was.  Over any
\* sequence of calls a ticket's status only moves from active to resolved,
\* and a resolved ticket's status, response and response_user never change.
C27_ResolveTicket ==
    /\ [](tk.name = "resolve_ticket" =>
            IF ResolvableCall
            THEN /\ Len(db_tickets.rows) = Len(tk.before)
                 /\ \A i \in DOMAIN tk.before :
                       db_tickets.rows[i] =
                          IF tk.before[i].id = tk.ticket_id
                          THEN [tk.before[i] EXCEPT
                                  !.status = "resolved",
                                  !.response = tk.arg,
                                  !.response_user = access_token.claims.sub]
                          ELSE tk.before[i]
            ELSE db_tickets.rows = tk.before)
    /\ [][\A i \in DOMAIN db_tickets.rows :
            (i \in DOMAIN db_tickets'.rows /\ db_tickets.rows[i].status = "resolved") =>
                db_tickets'.rows[i] = db_tickets.rows[i]]_vars

-----------------------------------------------------------------------------
(* Claims about a call repeated with another token, checked under SpecTwin *)

\* the decision of the organization-scoped check a result shows
Decision(result) ==
    IF result.kind \in {"users", "comparison"} THEN "allow"
    ELSE IF result.error = E_Denied THEN "deny"
    ELSE "error"

\* the call served is the call of twin again, with a token that differs from
\* twin's in the organizations claim only
RepeatedCall ==
    /\ twin # NoTwin
    /\ tool.name \in OrgScopedTools
    /\ tool.name = twin.tool.name
    /\ tool.organization = twin.tool.organization
    /\ tool.usernames = twin.tool.usernames
    /\ access_token.claims.organizations # twin.access_token.claims.organizations
    /\ [access_token EXCEPT !.claims.organizations =
           twin.access_token.claims.organizations] = twin.access_token

\* C30: the decision of the organization-scoped check of
\* get_organization_users and compare_user_permissions depends on the token's
\* roles and sub, the requested organization and the rows of the users table
\* only: two requests that differ only in the organizations claim of the
\* token get the same decision (and the same result), and a caller without
\* the admin role and without a permission row is refused although its token
\* lists the organization.
C30_OrganizationsClaimIsIgnored ==
    /\ RepeatedCall =>
          /\ Decision(tool.result) = Decision(twin.tool.result)
          /\ tool.result = twin.tool.result
    /\ (/\ NonAdminOrgCall
        /\ "organizations" \in DOMAIN access_token.claims
        /\ tool.organization \in Range(access_token.claims.organizations)
        /\ ~CallerMayView) => Decision(tool.result) = "deny"

C30_Witness ==
    /\ RepeatedCall
    /\ NonAdminOrgCall
    /\ access_token.claims.sub = "paul_morgan"
    /\ tool.name = "get_organization_users"
    /\ tool.organization = "Dallas_Police"
    /\ twin.access_token.claims.organizations = <<>>
    /\ access_token.claims.organizations = <<"Dallas_Police">>
    /\ UsersOf("Dallas_Police") # <<>>
    /\ Decision(tool.result) = "deny"
    /\ Decision(twin.tool.result) = "deny"

-----------------------------------------------------------------------------
(* Claims about the RAG agent registry, checked under SpecRegistry *)

\* the places of the agents registered under a name
RegisteredAs(name) == {i \in DOMAIN registry.agents : registry.agents[i].name = name}

\* C21: get_all_tools returns exactly one tool per registered agent, in the
\* order of registration, and it initializes each agent before it creates
\* that agent's tool; on an empty registry it returns the empty list.
\* get_agent(name) returns the first agent registered under that name, or
\* None when no agent of that name is registered.
C21_RegistryTools ==
    /\ (registry.call.name = "get_all_tools" /\ ~registry.call.raised) =>
          /\ Len(registry.call.tools) = Len(registry.agents)
          /\ Len(registry.call.events) = 2 * Len(registry.agents)
          /\ \A i \in DOMAIN registry.agents :
                /\ registry.call.tools[i].agent = registry.agents[i].id
                /\ registry.call.events[2 * i - 1] = <<"initialize", registry.agents[i].id>>
                /\ registry.call.events[2 * i] = <<"create_tool", registry.agents[i].id>>
                /\ registry.agents[i].id \in registry.initialized
    /\ (registry.call.name = "get_all_tools" /\ registry.agents = <<>>) =>
          /\ ~registry.call.raised
          /\ registry.call.tools = <<>>
    /\ \A j \in DOMAIN registry.call.events :
          registry.call.events[j][1] = "create_tool" =>
             \E i \in 1..(j - 1) :
                registry.call.events[i] = <<"initialize", registry.call.events[j][2]>>
    /\ registry.call.name = "get_agent" =>
          IF RegisteredAs(registry.call.arg) = {}
          THEN registry.call.agent = NoAgent
          ELSE /\ registry.call.agent = registry.agents[Min(RegisteredAs(registry.call.arg))]
               /\ registry.call.agent.name = registry.call.arg

C21_Witness ==
    /\ registry.call.name = "get_all_tools"
    /\ ~registry.call.raised
    /\ Len(registry.agents) = 3
    /\ registry.agents[1].id = 3 /\ registry.agents[2].id = 2 /\ registry.agents[3].id = 1
    /\ Len(registry.call.tools) = 3
    /\ registry.call.tools[1].agent = 3

-----------------------------------------------------------------------------
(* Claims about the collection of the chat API, checked under SpecChat *)

\* C28: with collection enabled the chat API saves and then clears the
\* collector on every auto_save_interval-th collected interaction: while
\* interaction_count is a positive multiple of the interval the collector is
\* empty, and after any sequence of chat_stream
\* requests and POST /api/admin/save-data calls the collector holds no more
\* than auto_save_interval samples, also when a save has failed.
C28_CollectorStaysWithinInterval ==
    /\ CollectorLen(collector) <= auto_save_interval
    /\ (/\ app_state.interaction_count > 0
        /\ app_state.interaction_count % auto_save_interval = 0)
          => CollectorLen(collector) = 0

====
